---- MODULE Spec2Model ----
(***************************************************************************)
(* Model of the DUDOXX provider for the AI SDK.                            *)
(*                                                                         *)
(*  - DudoxxChatLanguageModel.doStream: the TransformStream that turns     *)
(*    parsed SSE chunks into stream parts (transform / flush) and the      *)
(*    closure variables finishReason, usage, chunkNumber of each call.     *)
(*  - DudoxxChatLanguageModel.doGenerate: the mapping of one parsed        *)
(*    completion into text, tool calls, finish reason and usage.           *)
(*  - DudoxxToolExecutionMonitor: executeToolWithMonitoring with its       *)
(*    timeout race, retry loop, in-flight map and completed history.       *)
(*                                                                         *)
(* An absent JavaScript value (undefined / null) is the string Undefined;  *)
(* an optional object is a sequence of length 0 or 1.                      *)
(***************************************************************************)
EXTENDS Integers, Sequences, FiniteSets, TLC

VARIABLES
    mode,          \* which entry point the host called: "stream" | "generate" | "monitor"
    chunksIn,      \* per stream: the chunks handed to transform so far (history)
    finishReason,  \* per stream: closure variable finishReason of doStream
    usage,         \* per stream: closure variable usage of doStream
    chunkNumber,   \* per stream: closure variable chunkNumber of doStream
    events,        \* per stream: the parts enqueued on the controller, in order
    origin,        \* per stream: for each enqueued part, <<chunk number, tool_calls position>>
    flushed,       \* per stream: flush has run (the readable side is closed)
    genResponse,   \* doGenerate: the parsed completion (sequence of length 0 or 1)
    genResult,     \* doGenerate: the returned value (sequence of length 0 or 1)
    genOrigin,     \* doGenerate: for each returned tool call, its position in message.tool_calls
    config,        \* monitor: this.config
    activeExecutions,    \* monitor: keys of the in-flight map
    completedExecutions, \* monitor: the completed history
    calls,         \* monitor: one record per executeToolWithMonitoring invocation
    completionLog, \* monitor: every call of completeExecution so far, in order (history)
    updates,       \* monitor: number of updateConfig calls so far (history)
    executePlan,   \* monitor: what the n-th invocation of executeFunction in a call does
    retryCall,     \* withRetry: arguments, locals and outcome of one call
    classified,    \* classifyError: the failure the host caught and the verdict returned
    prompt,        \* convertToDudoxxChatMessages: the conversation passed in
    converted,     \* convertToDudoxxChatMessages: what each call so far returned or threw
    convOrigin,    \* for each returned wire message, the index of the turn it came from
    toolMode,      \* prepareTools: the mode argument (tools and toolChoice)
    prepared,      \* prepareTools: what it returned or threw (length 0 or 1)
    prepOrigin,    \* for each returned wire tool, its position in mode.tools
    embedCall,     \* doEmbed: settings, arguments, requests sent and outcome of one call
    held,          \* the object getConfig returned to the host (length 0 or 1)
    lastUpdate     \* the last updateConfig call: configuration before it and its argument

streamVars == <<chunksIn, finishReason, usage, chunkNumber, events, origin, flushed>>
genVars == <<genResponse, genResult, genOrigin>>
monVars == <<config, activeExecutions, completedExecutions, calls, executePlan, completionLog,
            updates>>
errVars == <<retryCall, classified>>
convVars == <<prompt, converted, convOrigin>>
prepVars == <<toolMode, prepared, prepOrigin>>
embedVars == <<embedCall>>
hostVars == <<held, lastUpdate>>
vars == <<mode, streamVars, genVars, monVars, errVars, convVars, prepVars, embedVars,
          hostVars>>

(***************************************************************************)
(* Bounds of the model.                                                    *)
(***************************************************************************)
\* chunks delivered to transform, summed over all streams
MaxChunks == 3
\* tool calls in one non-streaming completion
MaxToolCalls == 2
\* largest maxRetries the monitor is configured with
MaxRetriesBound == 2
\* free slots of the completed history when the monitor is observed late in
\* the life of the process
MaxFreeSlots == 1
\* calls of updateConfig by the host
MaxUpdates == 1
\* turns of a conversation passed to convertToDudoxxChatMessages
MaxTurns == 3
\* calls of convertToDudoxxChatMessages on the same conversation
MaxConversions == 2
\* tools in the list passed to prepareTools
MaxTools == 3
\* values passed to doEmbed in one call
MaxValues == 34

Undefined == "undefined"

\* Number.NaN, the one value of a token counter that is no defined number;
\* the defined counters of the model are the naturals
NaN == -1

Streams == {"A", "B"}

Min(a, b) == IF a < b THEN a ELSE b

Last(seq) == seq[Len(seq)]

\* JavaScript truthiness of an optional string
Truthy(s) == s # Undefined /\ s # ""

(***************************************************************************)
(* Wire shapes (dudoxxChatChunkSchema).                                    *)
(***************************************************************************)
\* one entry of delta.tool_calls
ToolCallDelta(index, id, hasFunction, name, arguments) ==
    [index |-> index, id |-> id, hasFunction |-> hasFunction,
     name |-> name, arguments |-> arguments]

\* first fragment of call 0: name and the start of the arguments, no id
StartCall0 == ToolCallDelta(0, Undefined, TRUE, "get_weather", "{\"city\":")
\* continuation of call 0: arguments only, no id, no name
ContinueCall0 == ToolCallDelta(0, Undefined, TRUE, Undefined, "\"SF\"}")
\* first fragment of call 1, no id
StartCall1 == ToolCallDelta(1, Undefined, TRUE, "get_time", "{}")
\* first fragment of call 1 with the id the wire supplied, name only
StartCall1WithId == ToolCallDelta(1, "call_w", TRUE, "get_time", Undefined)
\* an entry with an empty id and an empty function name
EmptyNameCall == ToolCallDelta(0, "", TRUE, "", "{}")
\* an entry without a function object
NoFunctionCall == ToolCallDelta(1, Undefined, FALSE, Undefined, Undefined)

DeltaLists ==
    {<<StartCall0, StartCall1WithId>>, <<ContinueCall0, StartCall1>>,
     <<EmptyNameCall, NoFunctionCall>>}

Usage4_30 == [prompt_tokens |-> 4, completion_tokens |-> 30]
Usage0_7 == [prompt_tokens |-> 0, completion_tokens |-> 7]

Choice(finish_reason, content, tool_calls) ==
    [finish_reason |-> finish_reason,
     delta |-> [content |-> content, tool_calls |-> tool_calls]]

ParsedChunk(usg, choices) ==
    [success |-> TRUE, usage |-> usg, choices |-> choices]

\* a chunk the event-source parser could not parse or validate
FailedChunk == [success |-> FALSE, usage |-> <<>>, choices |-> <<>>]

\* the chunks the transport may deliver
Chunks ==
    {FailedChunk}
    \cup {ParsedChunk(<<>>, <<Choice(Undefined,
                                      IF tcs[1] = StartCall0 THEN "Hi" ELSE Undefined,
                                      tcs)>>) : tcs \in DeltaLists}
    \cup {ParsedChunk(<<Usage4_30>>, <<Choice("stop", Undefined, <<>>)>>)}
    \cup {ParsedChunk(<<Usage0_7>>, <<>>)}

(***************************************************************************)
(* mapDudoxxFinishReason                                                   *)
(***************************************************************************)
\* variant: the map without the function_call case
mapDudoxxFinishReasonNoFunctionCall(fr) ==
    CASE fr = "stop" -> "stop"
      [] fr = "length" -> "length"
      [] fr = "tool_calls" -> "tool-calls"
      [] fr = "content_filter" -> "content-filter"
      [] OTHER -> "unknown"

mapDudoxxFinishReason(fr) ==
    CASE fr = "stop" -> "stop"
      [] fr = "length" -> "length"
      [] fr \in {"function_call", "tool_calls"} -> "tool-calls"
      [] fr = "content_filter" -> "content-filter"
      [] OTHER -> "unknown"

(***************************************************************************)
(* doStream: the closure variables and the TransformStream.                *)
(***************************************************************************)
\* `call_${Date.now()}_${Math.random().toString(36).substring(2, 11)}`
\* stamp stands for the pair (Date.now(), Math.random()) of one evaluation
GenStamps == {"1711113008000_k3j9x2m1q", "1711113008000_p0q7z4a8c"}

StreamGeneratedId(stamp) == "call_" \o stamp

\* a transform that hands the wire id through as it is
StreamToolCallIdVerbatim(toolCall, stamp) == toolCall.id

\* toolCall.id || `call_...`
StreamToolCallId(toolCall, stamp) ==
    IF Truthy(toolCall.id) THEN toolCall.id ELSE StreamGeneratedId(stamp)

\* usage that starts as { promptTokens: NaN, completionTokens: NaN }
InitialUsageNaN == [promptTokens |-> NaN, completionTokens |-> NaN]

\* let usage = { promptTokens: 0, completionTokens: 0 }
InitialUsage == [promptTokens |-> 0, completionTokens |-> 0]

\* value.usage.prompt_tokens || 0
OrZero(n) == IF n = 0 \/ n = NaN THEN 0 ELSE n

\* variant: the first usage a stream reports is kept
UsageAfterFirstWins(u, value) ==
    IF value.usage # <<>> /\ u = InitialUsage
    THEN [promptTokens |-> OrZero(value.usage[1].prompt_tokens),
          completionTokens |-> OrZero(value.usage[1].completion_tokens)]
    ELSE u

UsageAfter(u, value) ==
    IF value.usage # <<>>
    THEN [promptTokens |-> OrZero(value.usage[1].prompt_tokens),
          completionTokens |-> OrZero(value.usage[1].completion_tokens)]
    ELSE u

FinishReasonAfter(fr, value) ==
    IF value.choices # <<>> /\ value.choices[1].finish_reason # Undefined
    THEN mapDudoxxFinishReason(value.choices[1].finish_reason)
    ELSE fr

ErrorPart == [type |-> "error", error |-> "Parse error occurred"]

\* getResponseMetadata(value) spread into the part
ResponseMetadataPart == [type |-> "response-metadata"]

TextDeltaPart(content) == [type |-> "text-delta", textDelta |-> content]

ToolCallDeltaPart(toolCallId, toolName, argsTextDelta) ==
    [type |-> "tool-call-delta", toolCallType |-> "function",
     toolCallId |-> toolCallId, toolName |-> toolName,
     argsTextDelta |-> argsTextDelta]

FinishPart(fr, u) == [type |-> "finish", finishReason |-> fr, usage |-> u]

\* a transform that emits the metadata on every parsed chunk
IsFirstChunkEvery(n) == n >= 1

\* chunkNumber === 1
IsFirstChunk(n) == n = 1

\* the parts one entry of delta.tool_calls enqueues (one pass of the for loop)
ToolCallParts(toolCall, stamp) ==
    LET toolCallId == StreamToolCallId(toolCall, stamp)
        hasName == toolCall.hasFunction /\ toolCall.name # Undefined
        hasArgs == toolCall.hasFunction /\ toolCall.arguments # Undefined
    IN  IF hasName /\ ~Truthy(toolCall.name)
        THEN <<>>   \* console.warn(...); continue
        ELSE (IF hasName
              THEN <<ToolCallDeltaPart(toolCallId, toolCall.name,
                        IF Truthy(toolCall.arguments) THEN toolCall.arguments ELSE "")>>
              ELSE <<>>)
             \o
             (IF hasArgs
              THEN <<ToolCallDeltaPart(toolCallId,
                        IF Truthy(toolCall.name) THEN toolCall.name ELSE "",
                        toolCall.arguments)>>
              ELSE <<>>)

\* each part with the position in delta.tool_calls of the entry it was built
\* from (0 for the parts that come from no entry)
Tag(parts, pos) == [k \in 1..Len(parts) |-> [part |-> parts[k], pos |-> pos]]

\* for (const toolCall of delta.tool_calls): parts of entries from..Len, in order
RECURSIVE ToolCallsParts(_, _, _)
ToolCallsParts(tool_calls, stamps, from) ==
    IF from > Len(tool_calls) THEN <<>>
    ELSE Tag(ToolCallParts(tool_calls[from], stamps[from]), from)
         \o ToolCallsParts(tool_calls, stamps, from + 1)

\* a transform that handles delta.tool_calls before delta.content
ParsedChunkPartsToolsFirst(value, n, stamps) ==
    (IF IsFirstChunk(n) THEN Tag(<<ResponseMetadataPart>>, 0) ELSE <<>>)
    \o
    (IF value.choices = <<>> THEN <<>>
     ELSE LET delta == value.choices[1].delta
          IN  ToolCallsParts(delta.tool_calls, stamps, 1)
              \o (IF delta.content # Undefined
                  THEN Tag(<<TextDeltaPart(delta.content)>>, 0) ELSE <<>>))

\* the parts transform enqueues for a parsed chunk that is the n-th parsed one
ParsedChunkParts(value, n, stamps) ==
    (IF IsFirstChunk(n) THEN Tag(<<ResponseMetadataPart>>, 0) ELSE <<>>)
    \o
    (IF value.choices = <<>> THEN <<>>
     ELSE LET delta == value.choices[1].delta
          IN  (IF delta.content # Undefined
               THEN Tag(<<TextDeltaPart(delta.content)>>, 0) ELSE <<>>)
              \o ToolCallsParts(delta.tool_calls, stamps, 1))

\* a transform that counts the chunk before it looks at chunk.success
ChunkNumberAfterCountingAll(n, chunk) == n + 1

\* chunkNumber after transform has seen a chunk
ChunkNumberAfter(n, chunk) == IF chunk.success THEN n + 1 ELSE n

\* a chunkNumber declared once for the model instead of once per doStream call
ChunkNumbersAfterShared(numbers, s, chunk) ==
    [t \in DOMAIN numbers |-> ChunkNumberAfter(numbers[s], chunk)]

\* chunkNumber is a `let` of the doStream call: each stream has its own
ChunkNumbersAfter(numbers, s, chunk) ==
    [numbers EXCEPT ![s] = ChunkNumberAfter(@, chunk)]

TransformParts(chunk, n, stamps) ==
    IF ~chunk.success THEN Tag(<<ErrorPart>>, 0)
    ELSE ParsedChunkParts(chunk, ChunkNumberAfter(n, chunk), stamps)

RECURSIVE SumLen(_, _)
SumLen(f, S) ==
    IF S = {} THEN 0
    ELSE LET s == CHOOSE x \in S : TRUE IN Len(f[s]) + SumLen(f, S \ {s})

DeliveredChunks == SumLen(chunksIn, Streams)

\* tool_calls of a chunk (empty when the chunk has no delta)
ToolCallsOf(chunk) ==
    IF chunk.success /\ chunk.choices # <<>>
    THEN chunk.choices[1].delta.tool_calls ELSE <<>>

InitStream ==
    /\ chunksIn = [s \in Streams |-> <<>>]
    /\ finishReason = [s \in Streams |-> "unknown"]
    /\ usage = [s \in Streams |-> InitialUsage]
    /\ chunkNumber = [s \in Streams |-> 0]
    /\ events = [s \in Streams |-> <<>>]
    /\ origin = [s \in Streams |-> <<>>]
    /\ flushed = [s \in Streams |-> FALSE]

\* transform(chunk, controller) of stream s
Transform(s, chunk) ==
    /\ mode = "stream"
    /\ ~flushed[s]
    /\ DeliveredChunks < MaxChunks
    /\ \E stamps \in [1..Len(ToolCallsOf(chunk)) -> GenStamps] :
         LET tagged == TransformParts(chunk, chunkNumber[s], stamps)
             at == Len(chunksIn[s]) + 1
         IN  /\ events' = [events EXCEPT ![s] =
                              @ \o [k \in 1..Len(tagged) |-> tagged[k].part]]
             /\ origin' = [origin EXCEPT ![s] =
                              @ \o [k \in 1..Len(tagged) |-> <<at, tagged[k].pos>>]]
    /\ chunkNumber' = ChunkNumbersAfter(chunkNumber, s, chunk)
    /\ usage' = [usage EXCEPT ![s] = IF chunk.success THEN UsageAfter(@, chunk) ELSE @]
    /\ finishReason' = [finishReason EXCEPT ![s] =
                            IF chunk.success THEN FinishReasonAfter(@, chunk) ELSE @]
    /\ chunksIn' = [chunksIn EXCEPT ![s] = Append(@, chunk)]
    /\ UNCHANGED <<mode, flushed, genVars, monVars, errVars, convVars, prepVars,
                   embedVars, hostVars>>

\* flush(controller) of stream s
Flush(s) ==
    /\ mode = "stream"
    /\ ~flushed[s]
    /\ events' = [events EXCEPT ![s] = Append(@, FinishPart(finishReason[s], usage[s]))]
    /\ origin' = [origin EXCEPT ![s] = Append(@, <<Len(chunksIn[s]) + 1, 0>>)]
    /\ flushed' = [flushed EXCEPT ![s] = TRUE]
    /\ UNCHANGED <<mode, chunksIn, finishReason, usage, chunkNumber, genVars, monVars,
                   errVars, convVars, prepVars,
                   embedVars, hostVars>>

(***************************************************************************)
(* JSON.parse, as far as doGenerate uses it: does the text parse?          *)
(* Objects, arrays, strings without escapes, integers, true/false/null,    *)
(* blanks between tokens.  A position is an index into the text; 0 is a    *)
(* syntax error.                                                           *)
(***************************************************************************)
Char(s, i) == IF i >= 1 /\ i <= Len(s) THEN SubSeq(s, i, i) ELSE ""

JsonDigits == {"0", "1", "2", "3", "4", "5", "6", "7", "8", "9"}

RECURSIVE SkipBlanks(_, _)
SkipBlanks(s, i) == IF Char(s, i) = " " THEN SkipBlanks(s, i + 1) ELSE i

RECURSIVE SkipDigits(_, _)
SkipDigits(s, i) == IF Char(s, i) \in JsonDigits THEN SkipDigits(s, i + 1) ELSE i

\* i is just after the opening quote; the position after the closing quote
RECURSIVE StringEnd(_, _)
StringEnd(s, i) ==
    IF i > Len(s) \/ Char(s, i) = "\\" THEN 0
    ELSE IF Char(s, i) = "\"" THEN i + 1
    ELSE StringEnd(s, i + 1)

JsonLiteral(s, i, lit) ==
    IF i + Len(lit) - 1 <= Len(s) /\ SubSeq(s, i, i + Len(lit) - 1) = lit
    THEN i + Len(lit) ELSE 0

JsonNumber(s, i) ==
    LET d == IF Char(s, i) = "-" THEN i + 1 ELSE i
    IN  IF Char(s, d) \in JsonDigits THEN SkipDigits(s, d) ELSE 0

RECURSIVE JsonValue(_, _), JsonMembers(_, _), JsonElements(_, _)
\* the position after the value that starts at or after i
JsonValue(s, i) ==
    LET j == SkipBlanks(s, i)
        c == Char(s, j)
    IN  CASE c = "{" -> (IF Char(s, SkipBlanks(s, j + 1)) = "}"
                         THEN SkipBlanks(s, j + 1) + 1
                         ELSE JsonMembers(s, j + 1))
          [] c = "[" -> (IF Char(s, SkipBlanks(s, j + 1)) = "]"
                         THEN SkipBlanks(s, j + 1) + 1
                         ELSE JsonElements(s, j + 1))
          [] c = "\"" -> StringEnd(s, j + 1)
          [] c = "t" -> JsonLiteral(s, j, "true")
          [] c = "f" -> JsonLiteral(s, j, "false")
          [] c = "n" -> JsonLiteral(s, j, "null")
          [] c = "-" \/ c \in JsonDigits -> JsonNumber(s, j)
          [] OTHER -> 0

\* "key": value pairs up to the closing brace
JsonMembers(s, i) ==
    LET k == SkipBlanks(s, i)
        afterKey == IF Char(s, k) = "\"" THEN StringEnd(s, k + 1) ELSE 0
        colon == IF afterKey = 0 THEN 0 ELSE SkipBlanks(s, afterKey)
        afterValue == IF colon = 0 \/ Char(s, colon) # ":" THEN 0
                      ELSE JsonValue(s, colon + 1)
        next == IF afterValue = 0 THEN 0 ELSE SkipBlanks(s, afterValue)
    IN  IF next = 0 THEN 0
        ELSE IF Char(s, next) = "," THEN JsonMembers(s, next + 1)
        ELSE IF Char(s, next) = "}" THEN next + 1
        ELSE 0

\* values up to the closing bracket
JsonElements(s, i) ==
    LET afterValue == JsonValue(s, i)
        next == IF afterValue = 0 THEN 0 ELSE SkipBlanks(s, afterValue)
    IN  IF next = 0 THEN 0
        ELSE IF Char(s, next) = "," THEN JsonElements(s, next + 1)
        ELSE IF Char(s, next) = "]" THEN next + 1
        ELSE 0

\* JSON.parse(text) does not throw
JsonParses(s) ==
    LET end == JsonValue(s, 1)
    IN  end # 0 /\ SkipBlanks(s, end) = Len(s) + 1

(***************************************************************************)
(* doGenerate: one completion as the server sent it.                       *)
(***************************************************************************)
WireToolCall(id, name, arguments) ==
    [id |-> id, type |-> "function", name |-> name, arguments |-> arguments]

WireToolCalls ==
    {WireToolCall(Undefined, "get_weather", "{\"city\":\"SF\"}"),
     WireToolCall(Undefined, "get_weather", "{\"city\":"),
     WireToolCall("call_w", "get_time", ""),
     WireToolCall(Undefined, "get_weather_forecast", "{\"days\": 3}"),
     WireToolCall("", "", "{}"),
     WireToolCall(Undefined, Undefined, "{}")}

RECURSIVE SeqsUpTo(_, _)
SeqsUpTo(S, n) ==
    IF n = 0 THEN {<<>>}
    ELSE LET shorter == SeqsUpTo(S, n - 1)
         IN  shorter \cup {Append(q, x) : q \in {r \in shorter : Len(r) = n - 1}, x \in S}

\* message.tool_calls is nullish (<<>>) or a list (<<list>>)
Responses ==
    [content : {Undefined, "Hello"},
     tool_calls : {<<>>} \cup {<<l>> : l \in SeqsUpTo(WireToolCalls, MaxToolCalls)},
     finish_reason : {Undefined, "tool_calls"},
     usage : {<<>>, <<Usage4_30>>}]

\* `call_${Date.now()}_${Math.random()...}_${toolCall.function.name.substring(0, 8)}`
GenerateGeneratedId(toolCall, stamp) ==
    "call_" \o stamp \o "_" \o SubSeq(toolCall.name, 1, Min(8, Len(toolCall.name)))

\* toolCall.id || `call_...`
GenerateToolCallId(toolCall, stamp) ==
    IF Truthy(toolCall.id) THEN toolCall.id ELSE GenerateGeneratedId(toolCall, stamp)

\* toolCall.function.arguments || '{}', replaced by '{}' when JSON.parse throws
ValidatedArgs(arguments) ==
    LET validatedArgs == IF arguments = "" THEN "{}" ELSE arguments
    IN  IF JsonParses(validatedArgs) THEN validatedArgs ELSE "{}"

\* the callback of tool_calls.map: <<>> for null, else the tool call
MapToolCall(toolCall, stamp) ==
    IF toolCall.name = "" THEN <<>>
    ELSE <<[toolCallType |-> "function",
            toolCallId |-> GenerateToolCallId(toolCall, stamp),
            toolName |-> toolCall.name,
            args |-> ValidatedArgs(toolCall.arguments)]>>

\* tool_calls.map(...).filter(toolCall => toolCall !== null), each kept tool
\* call with its position in tool_calls
RECURSIVE MapToolCalls(_, _, _)
MapToolCalls(tool_calls, stamps, from) ==
    IF from > Len(tool_calls) THEN <<>>
    ELSE Tag(MapToolCall(tool_calls[from], stamps[from]), from)
         \o MapToolCalls(tool_calls, stamps, from + 1)

\* dudoxxChatResponseSchema on one entry of message.tool_calls:
\* function.name is z.string(), which an absent name does not satisfy
ToolCallValidates(toolCall) == toolCall.name # Undefined

\* createJsonResponseHandler(dudoxxChatResponseSchema) accepts the response
ResponseValidates(response) ==
    \/ response.tool_calls = <<>>
    \/ \A k \in DOMAIN response.tool_calls[1] : ToolCallValidates(response.tool_calls[1][k])

\* what postJsonToApi throws when the response does not satisfy the schema
TypeValidationError == [name |-> "AI_TypeValidationError"]

\* response.usage?.prompt_tokens ?? 0
GenerateUsage(response) ==
    IF response.usage = <<>> THEN [promptTokens |-> 0, completionTokens |-> 0]
    ELSE [promptTokens |-> response.usage[1].prompt_tokens,
          completionTokens |-> response.usage[1].completion_tokens]

InitGenerate ==
    /\ genResponse \in {<<r>> : r \in Responses}
    /\ genResult = <<>>
    /\ genOrigin = <<>>

\* doGenerate, from the response of the server to the value returned or
\* thrown
DoGenerate ==
    /\ mode = "generate"
    /\ genResult = <<>>
    /\ LET response == genResponse[1]
           tool_calls == IF response.tool_calls = <<>> THEN <<>> ELSE response.tool_calls[1]
       IN  IF ~ResponseValidates(response)
           THEN /\ genResult' = <<[threw |-> <<TypeValidationError>>]>>
                /\ genOrigin' = <<>>
           ELSE
           \E stamps \in [1..Len(tool_calls) -> GenStamps] :
             LET tagged == MapToolCalls(tool_calls, stamps, 1)
             IN  /\ genResult' =
                       <<[threw |-> <<>>,
                          text |-> IF Truthy(response.content) THEN response.content ELSE "",
                          toolCalls |-> IF response.tool_calls = <<>> THEN <<>>
                                        ELSE <<[k \in 1..Len(tagged) |-> tagged[k].part]>>,
                          finishReason |-> mapDudoxxFinishReason(response.finish_reason),
                          usage |-> GenerateUsage(response)]>>
                 /\ genOrigin' = [k \in 1..Len(tagged) |-> tagged[k].pos]
    /\ UNCHANGED <<mode, genResponse, streamVars, monVars, errVars, convVars, prepVars,
                   embedVars, hostVars>>

(***************************************************************************)
(* DudoxxToolExecutionMonitor.                                             *)
(***************************************************************************)
\* timeoutMs: 30000, retryDelayMs: 1000 of the constructor's defaults
DefaultTimeoutMs == 30000
DefaultRetryDelayMs == 1000
\* if (this.completedExecutions.length > 1000) ... slice(-1000)
HistoryCapacity == 1000

CallIds == {"c1", "c2"}

\* what one invocation of executeFunction(args) does: its promise resolves,
\* rejects with an Error (or the function throws one), rejects with a value
\* that is no Error and has no message (null, undefined, a string), or does
\* not settle before the timeout timer fires
Behaviours == {"resolve", "reject", "rejectNonError", "hang"}

ErrorValue(message) == [isError |-> TRUE, message |-> message]

\* null, undefined or a string: reading .message.includes throws a TypeError
NonErrorValue == [isError |-> FALSE, message |-> Undefined]

\* the TypeError of (error as Error).message.includes('timeout') on such a value
TypeErrorValue == ErrorValue("Cannot read properties of undefined (reading 'includes')")

\* variant: the timer rejects with a message that does not hold the word 'timeout'
TimeoutErrorValueTimedOut(timeoutMs) ==
    ErrorValue("Tool execution timed out after " \o ToString(timeoutMs) \o "ms")

\* new Error(`Tool execution timeout after ${timeoutMs}ms`) of createTimeoutPromise
TimeoutErrorValue(timeoutMs) ==
    ErrorValue("Tool execution timeout after " \o ToString(timeoutMs) \o "ms")

\* String.prototype.includes
Includes(text, part) ==
    \E i \in 1..(Len(text) - Len(part) + 1) : SubSeq(text, i, i + Len(part) - 1) = part

RECURSIVE Pow2(_)
Pow2(n) == IF n = 0 THEN 1 ELSE 2 * Pow2(n - 1)

\* variant: slice(0, 1000), which drops the newest entries
KeepFirst(history, capacity) ==
    IF Len(history) > capacity THEN SubSeq(history, 1, capacity) ELSE history

\* this.completedExecutions.slice(-1000) when the history is longer than 1000
KeepLast(history, capacity) ==
    IF Len(history) > capacity
    THEN SubSeq(history, Len(history) - capacity + 1, Len(history))
    ELSE history

MapSet(map, key, value) ==
    [k \in DOMAIN map \cup {key} |-> IF k = key THEN value ELSE map[k]]

MapDelete(map, key) == [k \in DOMAIN map \ {key} |-> map[k]]

IdleCall ==
    [pc |-> "idle", toolName |-> "", executionId |-> "", attempt |-> 0,
     metrics |-> [status |-> "pending", retryCount |-> 0, error |-> <<>>,
                  endTime |-> <<>>, duration |-> <<>>],
     warnings |-> <<>>, executed |-> 0, timer |-> 0, delay |-> 0, returned |-> <<>>,
     startConfig |-> <<>>, abandoned |-> 0, late |-> <<>>]

InitMonitor ==
    /\ config \in [timeoutMs : {DefaultTimeoutMs},
                   maxRetries : 0..MaxRetriesBound,
                   retryDelayMs : {DefaultRetryDelayMs},
                   enableMetrics : BOOLEAN,
                   enablePerformanceTracking : {TRUE}]
    /\ activeExecutions = <<>>
    /\ completedExecutions = <<>>
    /\ calls = [c \in CallIds |-> IdleCall]
    /\ executePlan \in [1..(MaxRetriesBound + 1) -> Behaviours]
    /\ completionLog = <<>>
    /\ updates = 0

\* variant: the entry pushed is a copy of the metrics as they were at the start
MetricsEntryAtStart(call) ==
    [toolName |-> call.toolName,
     executionId |-> call.executionId,
     status |-> "pending",
     retryCount |-> 0]

\* { ...metrics }: the copy of the metrics record pushed on the history
MetricsEntry(call) ==
    [toolName |-> call.toolName,
     executionId |-> call.executionId,
     status |-> call.metrics.status,
     retryCount |-> call.metrics.retryCount]

\* completeExecution(executionId, metrics)
CompleteExecution(c, call, active) ==
    /\ activeExecutions' = MapDelete(active, call.executionId)
    /\ completedExecutions' =
           IF config.enableMetrics
           THEN KeepLast(Append(completedExecutions, MetricsEntry(call)), HistoryCapacity)
           ELSE completedExecutions
    /\ completionLog' = Append(completionLog,
                               [entry |-> MetricsEntry(call), call |-> c,
                                enableMetrics |-> config.enableMetrics])
    /\ calls' = [calls EXCEPT ![c] = call]

\* executeToolWithMonitoring after executeWithTimeoutAndRetry returned result
ReturnResult(c, call, result) ==
    CompleteExecution(c, [call EXCEPT !.metrics.status = "success",
                                      !.metrics.endTime = <<"now">>,
                                      !.metrics.duration = <<"endTime - startTime">>,
                                      !.pc = "done",
                                      !.returned = <<[result |-> <<result>>, error |-> <<>>]>>],
                      activeExecutions)

\* variant: the catch block does not assign metrics.status
ReturnErrorKeepsStatus(c, call, error, active) ==
    CompleteExecution(c, [call EXCEPT !.metrics.endTime = <<"now">>,
                                      !.metrics.duration = <<"endTime - startTime">>,
                                      !.metrics.error = <<error>>,
                                      !.pc = "done",
                                      !.warnings = Append(@, "Tool execution failed: "
                                                             \o call.toolName \o " - " \o error.message),
                                      !.returned = <<[result |-> <<>>, error |-> <<error>>]>>],
                      active)

\* the catch block of executeToolWithMonitoring
ReturnError(c, call, error, active) ==
    CompleteExecution(c, [call EXCEPT !.metrics.status = "error",
                                      !.metrics.endTime = <<"now">>,
                                      !.metrics.duration = <<"endTime - startTime">>,
                                      !.metrics.error = <<error>>,
                                      !.pc = "done",
                                      !.warnings = Append(@, "Tool execution failed: "
                                                             \o call.toolName \o " - " \o error.message),
                                      !.returned = <<[result |-> <<>>, error |-> <<error>>]>>],
                      active)

\* the head of the for loop of executeWithTimeoutAndRetry: the attempt starts
\* (executeFunction is invoked and raced against the timer) or the loop ends
BeginAttempt(c, call, attempt, active) ==
    IF attempt <= config.maxRetries
    THEN /\ calls' = [calls EXCEPT ![c] = [call EXCEPT !.attempt = attempt,
                                                       !.metrics.retryCount = attempt,
                                                       !.executed = @ + 1,
                                                       !.timer = config.timeoutMs,
                                                       !.pc = "racing"]]
         /\ activeExecutions' = active
         /\ UNCHANGED <<completedExecutions, completionLog>>
    ELSE ReturnError(c, [call EXCEPT !.attempt = attempt],
                     ErrorValue("Tool execution failed after "
                                \o ToString(config.maxRetries) \o " retries"),
                     active)

\* executeToolWithMonitoring(toolName, args, executeFunction) up to its first await
StartCall(c, toolName) ==
    /\ mode = "monitor"
    /\ calls[c].pc = "idle"
    /\ \E stamp \in GenStamps :
         LET executionId == toolName \o "_" \o stamp
             call == [calls[c] EXCEPT !.toolName = toolName, !.executionId = executionId,
                                      !.startConfig = <<config>>]
         IN  BeginAttempt(c, call, 0, MapSet(activeExecutions, executionId, c))
    /\ UNCHANGED <<mode, config, executePlan, updates, streamVars, genVars, errVars, convVars, prepVars,
                   embedVars, hostVars>>

\* the catch block of executeWithTimeoutAndRetry
CatchAttempt(c, call, error) ==
    IF error.message = Undefined
    THEN ReturnError(c, call, TypeErrorValue, activeExecutions)
    ELSE LET isTimeout == Includes(error.message, "timeout")
             isLastAttempt == call.attempt = config.maxRetries
             seen == IF isTimeout
                     THEN [call EXCEPT !.metrics.status = "timeout",
                                       !.warnings = Append(@, "Tool " \o call.toolName
                                           \o " execution timeout ("
                                           \o ToString(config.timeoutMs) \o "ms)")]
                     ELSE call
         IN  IF isLastAttempt
             THEN ReturnError(c, seen, error, activeExecutions)
             ELSE /\ calls' = [calls EXCEPT ![c] =
                                  [seen EXCEPT !.pc = "sleeping",
                                               !.delay = config.retryDelayMs * Pow2(call.attempt)]]
                  /\ UNCHANGED <<activeExecutions, completedExecutions, completionLog>>

\* the race is won by executeFunction's promise, which resolves
ExecuteResolves(c) ==
    /\ mode = "monitor"
    /\ calls[c].pc = "racing"
    /\ executePlan[calls[c].executed] = "resolve"
    /\ LET call == calls[c]
           warned == IF call.attempt > 0
                     THEN [call EXCEPT !.warnings = Append(@, "Tool " \o call.toolName
                               \o " succeeded after " \o ToString(call.attempt) \o " retries")]
                     ELSE call
       IN  ReturnResult(c, warned, "result")
    /\ UNCHANGED <<mode, config, executePlan, updates, streamVars, genVars, errVars, convVars, prepVars,
                   embedVars, hostVars>>

\* the race is won by executeFunction's promise, which rejects
ExecuteRejects(c) ==
    /\ mode = "monitor"
    /\ calls[c].pc = "racing"
    /\ executePlan[calls[c].executed] \in {"reject", "rejectNonError"}
    /\ CatchAttempt(c, calls[c],
                    IF executePlan[calls[c].executed] = "reject"
                    THEN ErrorValue("Persistent failure") ELSE NonErrorValue)
    /\ UNCHANGED <<mode, config, executePlan, updates, streamVars, genVars, errVars, convVars, prepVars,
                   embedVars, hostVars>>

\* the race is won by the timer of createTimeoutPromise
TimeoutFires(c) ==
    /\ mode = "monitor"
    /\ calls[c].pc = "racing"
    /\ executePlan[calls[c].executed] = "hang"
    /\ CatchAttempt(c, [calls[c] EXCEPT !.abandoned = @ + 1], TimeoutErrorValue(calls[c].timer))
    /\ UNCHANGED <<mode, config, executePlan, updates, streamVars, genVars, errVars, convVars, prepVars,
                   embedVars, hostVars>>

\* await this.sleep(delay) is over: the retry warning, attempt++ and the next attempt
SleepEnds(c) ==
    /\ mode = "monitor"
    /\ calls[c].pc = "sleeping"
    /\ LET call == calls[c]
           warned == [call EXCEPT !.warnings = Append(@, "Tool " \o call.toolName
                          \o " retry " \o ToString(call.attempt + 1) \o "/"
                          \o ToString(config.maxRetries) \o " after "
                          \o ToString(call.delay) \o "ms delay")]
       IN  BeginAttempt(c, warned, call.attempt + 1, activeExecutions)
    /\ UNCHANGED <<mode, config, executePlan, updates, streamVars, genVars, errVars, convVars, prepVars,
                   embedVars, hostVars>>

NextMonitor ==
    \/ \E c \in CallIds, toolName \in {"failing_tool"} : StartCall(c, toolName)
    \/ \E c \in CallIds : ExecuteResolves(c)
    \/ \E c \in CallIds : ExecuteRejects(c)
    \/ \E c \in CallIds : TimeoutFires(c)
    \/ \E c \in CallIds : SleepEnds(c)

(***************************************************************************)
(* dudoxx-error: the failed-response handler, withRetry and classifyError. *)
(***************************************************************************)
\* a thrown value.  class is the constructor of the value ("null" for null or
\* undefined), statusCode 0 stands for an absent status, isRetryable and code
\* are Undefined when the property is absent, retryAfter has length 0 or 1
Thrown(class, message, statusCode, isRetryable, code, retryAfter) ==
    [class |-> class, message |-> message, statusCode |-> statusCode,
     isRetryable |-> isRetryable, code |-> code, retryAfter |-> retryAfter]

\* new DudoxxRateLimitError(message, retryAfter)
DudoxxRateLimitError(message, retryAfter) ==
    Thrown("DudoxxRateLimitError", message, 429, "true", Undefined, retryAfter)

\* new DudoxxTimeoutError(message, timeoutMs)
DudoxxTimeoutError(message) ==
    Thrown("DudoxxTimeoutError", message, 408, "true", Undefined, <<>>)

\* isRetryable of dudoxxFailedResponseHandler
HandlerIsRetryable(status) ==
    status = 429 \/ status = 408 \/ (status >= 500 /\ status < 600)

\* the APICallError that dudoxxFailedResponseHandler builds for a failed response
dudoxxFailedResponseHandler(status) ==
    Thrown("APICallError", "HTTP " \o ToString(status), status,
           IF HandlerIsRetryable(status) THEN "true" ELSE "false", Undefined, <<>>)

\* new Error(message) with the properties the thrower assigned to it
PlainError(message, isRetryable, code) ==
    Thrown("Error", message, 0, isRetryable, code, <<>>)

\* null or undefined, thrown or used as a rejection value
NullValue == Thrown("null", Undefined, 0, Undefined, Undefined, <<>>)

\* the TypeError of a property read on null or undefined
PropertyTypeError(property) ==
    PlainError("Cannot read properties of null (reading '" \o property \o "')",
               Undefined, Undefined)

\* error instanceof APICallError
InstanceOfAPICallError(error) ==
    error.class \in {"APICallError", "DudoxxRateLimitError", "DudoxxTimeoutError"}

\* the value classifyError returns ...
Classification(type, isRetryable, retryAfter) ==
    [threw |-> <<>>, type |-> type, isRetryable |-> isRetryable, retryAfter |-> retryAfter]

\* ... or the error it throws
ClassificationThrows(error) ==
    [threw |-> <<error>>, type |-> Undefined, isRetryable |-> FALSE, retryAfter |-> <<>>]

classifyError(error) ==
    IF error.class = "DudoxxRateLimitError"
    THEN Classification("rate_limit", TRUE, error.retryAfter)
    ELSE IF error.class = "DudoxxTimeoutError"
    THEN Classification("timeout", TRUE, <<>>)
    ELSE IF InstanceOfAPICallError(error) /\ error.statusCode \in {401, 403}
    THEN Classification("authentication", FALSE, <<>>)
    ELSE IF InstanceOfAPICallError(error) /\ error.statusCode \in {400, 422}
    THEN Classification("validation", FALSE, <<>>)
    ELSE IF InstanceOfAPICallError(error) /\ error.statusCode # 0 /\ error.statusCode >= 500
    THEN Classification("server", TRUE, <<>>)
    ELSE IF error.class = "null"
    THEN ClassificationThrows(PropertyTypeError("code"))
    ELSE IF error.code \in {"ECONNRESET", "ENOTFOUND"}
    THEN Classification("network", TRUE, <<>>)
    ELSE Classification("unknown", FALSE, <<>>)

\* the statuses of the failed responses the server sends
HttpStatuses == {400, 401, 403, 404, 408, 422, 429, 500, 503}

\* the failures a host catches besides failed responses
OtherFailures ==
    { DudoxxRateLimitError("Rate limit", <<60>>),
      DudoxxRateLimitError("Rate limit", <<>>),
      DudoxxTimeoutError("Timeout"),
      PlainError("Network error", Undefined, "ECONNRESET"),
      PlainError("Network error", Undefined, "ENOTFOUND"),
      PlainError("Unknown error", Undefined, Undefined),
      PlainError("Unknown error", Undefined, "EPIPE"),
      NullValue }

\* the isRetryable arguments of withRetry: the default
\* (error) => error.isRetryable === true, the example's
\* (error) => classifyError(error).isRetryable, () => true and () => false
RetryPredicates == {"default", "classify", "always", "never"}

\* isRetryable(error): "true", "false", or "throw" when the predicate throws
IsRetryableOutcome(predicate, error) ==
    CASE predicate = "default" ->
            IF error.class = "null" THEN "throw"
            ELSE IF error.isRetryable = "true" THEN "true" ELSE "false"
      [] predicate = "classify" ->
            IF classifyError(error).threw # <<>> THEN "throw"
            ELSE IF classifyError(error).isRetryable THEN "true" ELSE "false"
      [] predicate = "always" -> "true"
      [] predicate = "never" -> "false"

\* what the predicate throws when it throws
IsRetryableThrows(predicate, error) ==
    IF predicate = "default" THEN PropertyTypeError("isRetryable")
    ELSE classifyError(error).threw[1]

\* the values fn rejects with (or throws)
FnFailures ==
    { DudoxxRateLimitError("Rate limit", <<60>>),
      dudoxxFailedResponseHandler(401),
      dudoxxFailedResponseHandler(429),
      dudoxxFailedResponseHandler(503),
      PlainError("Network error", Undefined, "ECONNRESET"),
      PlainError("Retryable error", "true", Undefined),
      PlainError("Non-retryable error", "false", Undefined),
      NullValue }

\* withRetry(fn, maxRetries, isRetryable) up to its first await: attempt 0,
\* fn() has been invoked
InitRetry ==
    /\ retryCall \in [maxRetries : 0..MaxRetriesBound,
                      isRetryable : RetryPredicates,
                      attempt : {0},
                      pc : {"calling"},
                      invoked : {1},
                      failures : {<<>>},
                      returned : {<<>>},
                      threw : {<<>>}]

\* await fn() resolves: return
FnResolves ==
    /\ mode = "retry"
    /\ retryCall.pc = "calling"
    /\ retryCall' = [retryCall EXCEPT !.pc = "done", !.returned = <<"success">>]
    /\ UNCHANGED <<mode, classified, streamVars, genVars, monVars, convVars, prepVars,
                   embedVars, hostVars>>

\* variant: every failure is retried until the attempts run out
RetryDecisionIgnoringPredicate(maxRetries, predicate, attempt, error) ==
    IF attempt = maxRetries THEN [next |-> "throw", error |-> error]
    ELSE [next |-> "backoff", error |-> error]

\* the decision of the catch block of withRetry for the failure of this attempt
RetryDecision(maxRetries, predicate, attempt, error) ==
    IF attempt = maxRetries THEN [next |-> "throw", error |-> error]
    ELSE CASE IsRetryableOutcome(predicate, error) = "throw" ->
                 [next |-> "throw", error |-> IsRetryableThrows(predicate, error)]
           [] IsRetryableOutcome(predicate, error) = "false" ->
                 [next |-> "throw", error |-> error]
           [] IsRetryableOutcome(predicate, error) = "true" ->
                 [next |-> "backoff", error |-> error]

\* await fn() rejects: the catch block up to throw or await exponentialBackoff
FnRejects(error) ==
    /\ mode = "retry"
    /\ retryCall.pc = "calling"
    /\ LET decision == RetryDecision(retryCall.maxRetries, retryCall.isRetryable,
                                     retryCall.attempt, error)
           failed == [retryCall EXCEPT !.failures = Append(@, error)]
       IN  retryCall' =
               IF decision.next = "throw"
               THEN [failed EXCEPT !.pc = "done", !.threw = <<decision.error>>]
               ELSE [failed EXCEPT !.pc = "backoff"]
    /\ UNCHANGED <<mode, classified, streamVars, genVars, monVars, convVars, prepVars,
                   embedVars, hostVars>>

\* exponentialBackoff is over: console.warn(..., (error as Error).message),
\* attempt++ and the next fn()
BackoffEnds ==
    /\ mode = "retry"
    /\ retryCall.pc = "backoff"
    /\ retryCall' =
           IF Last(retryCall.failures).class = "null"
           THEN [retryCall EXCEPT !.pc = "done", !.threw = <<PropertyTypeError("message")>>]
           ELSE [retryCall EXCEPT !.attempt = @ + 1, !.invoked = @ + 1, !.pc = "calling"]
    /\ UNCHANGED <<mode, classified, streamVars, genVars, monVars, convVars, prepVars,
                   embedVars, hostVars>>

\* the host has caught nothing yet
InitClassify == classified = [error |-> <<>>, verdict |-> <<>>]

\* a request failed with this status: the failed-response handler builds the error
FailedResponse(status) ==
    /\ mode = "classify"
    /\ classified.error = <<>>
    /\ classified' = [classified EXCEPT !.error = <<dudoxxFailedResponseHandler(status)>>]
    /\ UNCHANGED <<mode, retryCall, streamVars, genVars, monVars, convVars, prepVars,
                   embedVars, hostVars>>

\* the host caught another failure
CatchFailure(error) ==
    /\ mode = "classify"
    /\ classified.error = <<>>
    /\ classified' = [classified EXCEPT !.error = <<error>>]
    /\ UNCHANGED <<mode, retryCall, streamVars, genVars, monVars, convVars, prepVars,
                   embedVars, hostVars>>

\* the host calls classifyError(error)
ClassifyError ==
    /\ mode = "classify"
    /\ classified.error # <<>>
    /\ classified.verdict = <<>>
    /\ classified' = [classified EXCEPT !.verdict = <<classifyError(classified.error[1])>>]
    /\ UNCHANGED <<mode, retryCall, streamVars, genVars, monVars, convVars, prepVars,
                   embedVars, hostVars>>

NextErrors ==
    \/ FnResolves
    \/ \E error \in FnFailures : FnRejects(error)
    \/ BackoffEnds
    \/ \E status \in HttpStatuses : FailedResponse(status)
    \/ \E error \in OtherFailures : CatchFailure(error)
    \/ ClassifyError

(***************************************************************************)
(* convertToDudoxxChatMessages.                                            *)
(***************************************************************************)
\* JSON values of tool-call args and tool results: a string, or an object
\* whose members (a sequence of <<key, string>>) keep their insertion order
JsonString(value) == [kind |-> "string", value |-> value, members |-> <<>>]

JsonObject(members) == [kind |-> "object", value |-> "", members |-> members]

Quoted(text) == "\"" \o text \o "\""

RECURSIVE StringifyMembers(_, _)
StringifyMembers(members, i) ==
    IF i > Len(members) THEN ""
    ELSE (IF i > 1 THEN "," ELSE "")
         \o Quoted(members[i][1]) \o ":" \o Quoted(members[i][2])
         \o StringifyMembers(members, i + 1)

\* JSON.stringify(value)
JsonStringify(json) ==
    IF json.kind = "string" THEN Quoted(json.value)
    ELSE "{" \o StringifyMembers(json.members, 1) \o "}"

\* content parts of the prompt
TextPart(text) == [type |-> "text", text |-> text]

FilePart == [type |-> "file"]

\* an image part whose image is a URL object
ImageUrlPart(url) == [type |-> "image", isUrl |-> TRUE, image |-> url, mimeType |-> Undefined]

ToolCallPart(toolCallId, toolName, args) ==
    [type |-> "tool-call", toolCallId |-> toolCallId, toolName |-> toolName, args |-> args]

ToolResultPart(toolCallId, toolName, result) ==
    [type |-> "tool-result", toolCallId |-> toolCallId, toolName |-> toolName,
     result |-> result]

\* a turn of the prompt: content is a string for system, a list of parts otherwise
Turn(role, content) == [role |-> role, content |-> content]

\* wire messages; content is a string, a list of parts or null, tool_calls and
\* tool_call_id are absent (length 0) or present (length 1)
WireNull == [is |-> "null"]

WireString(text) == [is |-> "string", text |-> text]

WireParts(parts) == [is |-> "array", parts |-> parts]

WireMessage(role, content, tool_calls, tool_call_id) ==
    [role |-> role, content |-> content, tool_calls |-> tool_calls,
     tool_call_id |-> tool_call_id]

\* new UnsupportedFunctionalityError({ functionality })
UnsupportedFunctionalityError(functionality) ==
    [name |-> "AI_UnsupportedFunctionalityError", functionality |-> functionality]

\* variant: a text part is sent without its text
ConvertUserPartBlank(part) ==
    CASE part.type = "text" -> [threw |-> <<>>, part |-> <<[type |-> "text", text |-> ""]>>]
      [] part.type = "image" ->
            [threw |-> <<>>,
             part |-> <<[type |-> "image_url", image_url |-> part.image]>>]
      [] part.type = "file" ->
            [threw |-> <<UnsupportedFunctionalityError("File content parts in user messages")>>,
             part |-> <<>>]

\* the callback of content.map of a user turn: the wire part, or what it throws;
\* an image is a URL object here, whose toString() is the URL string it was
\* built from (the turns below hold no image given as bytes)
ConvertUserPart(part) ==
    CASE part.type = "text" ->
            [threw |-> <<>>, part |-> <<[type |-> "text", text |-> part.text]>>]
      [] part.type = "image" ->
            [threw |-> <<>>,
             part |-> <<[type |-> "image_url", image_url |-> part.image]>>]
      [] part.type = "file" ->
            [threw |-> <<UnsupportedFunctionalityError("File content parts in user messages")>>,
             part |-> <<>>]

\* the first loop of case 'assistant': text += part.text
RECURSIVE AssistantText(_, _)
AssistantText(content, i) ==
    IF i > Len(content) THEN ""
    ELSE (IF content[i].type = "text" THEN content[i].text ELSE "")
         \o AssistantText(content, i + 1)

\* the first loop of case 'assistant': toolCalls.push({...})
RECURSIVE AssistantToolCalls(_, _)
AssistantToolCalls(content, i) ==
    IF i > Len(content) THEN <<>>
    ELSE (IF content[i].type = "tool-call"
          THEN <<[id |-> content[i].toolCallId, type |-> "function",
                  function |-> [name |-> content[i].toolName,
                                arguments |-> JsonStringify(content[i].args)]]>>
          ELSE <<>>)
         \o AssistantToolCalls(content, i + 1)

\* variant: the text of the turn is sent along with its tool calls
AssistantMessagesWithText(text, toolCalls) ==
    IF Len(toolCalls) > 0
    THEN <<WireMessage("assistant", IF text # "" THEN WireString(text) ELSE WireNull,
                       <<toolCalls>>, <<>>)>>
    ELSE IF text # "" THEN <<WireMessage("assistant", WireString(text), <<>>, <<>>)>>
    ELSE <<>>

\* variant: an assistant turn without text and tool calls is sent as an empty message
AssistantMessagesNeverNone(text, toolCalls) ==
    IF Len(toolCalls) > 0
    THEN <<WireMessage("assistant", WireNull, <<toolCalls>>, <<>>)>>
    ELSE <<WireMessage("assistant", WireString(text), <<>>, <<>>)>>

\* the messages pushed for an assistant turn: tool calls only, or text only, or none
AssistantMessages(text, toolCalls) ==
    IF Len(toolCalls) > 0
    THEN <<WireMessage("assistant", WireNull, <<toolCalls>>, <<>>)>>
    ELSE IF text # "" THEN <<WireMessage("assistant", WireString(text), <<>>, <<>>)>>
    ELSE <<>>

\* one iteration of the loop over the prompt: the messages pushed, or what it throws
ConvertTurn(turn) ==
    CASE turn.role = "system" ->
            [threw |-> <<>>,
             messages |-> <<WireMessage("system", WireString(turn.content), <<>>, <<>>)>>]
      [] turn.role = "user" ->
            LET mapped == [i \in 1..Len(turn.content) |-> ConvertUserPart(turn.content[i])]
                failed == {i \in 1..Len(mapped) : mapped[i].threw # <<>>}
            IN  IF failed # {}
                THEN [threw |-> mapped[CHOOSE i \in failed : \A j \in failed : i <= j].threw,
                      messages |-> <<>>]
                ELSE [threw |-> <<>>,
                      messages |-> <<WireMessage("user",
                                        WireParts([i \in 1..Len(mapped) |-> mapped[i].part[1]]),
                                        <<>>, <<>>)>>]
      [] turn.role = "assistant" ->
            [threw |-> <<>>,
             messages |-> AssistantMessages(AssistantText(turn.content, 1),
                                            AssistantToolCalls(turn.content, 1))]
      [] turn.role = "tool" ->
            [threw |-> <<>>,
             messages |-> [i \in 1..Len(turn.content) |->
                              WireMessage("tool",
                                          WireString(JsonStringify(turn.content[i].result)),
                                          <<>>, <<turn.content[i].toolCallId>>)]]

\* variant: a turn that throws is left out and the other turns are returned
RECURSIVE ConvertFromSkippingFailed(_, _, _)
ConvertFromSkippingFailed(turns, i, pushed) ==
    IF i > Len(turns) THEN [threw |-> <<>>, messages |-> pushed]
    ELSE LET step == ConvertTurn(turns[i])
         IN  ConvertFromSkippingFailed(turns, i + 1,
                 pushed \o [k \in 1..Len(step.messages) |->
                               [message |-> step.messages[k], turn |-> i]])

\* the loop over the prompt from turn i on, given the messages pushed so far
\* (each with the index of its turn): the function returns them or throws
RECURSIVE ConvertFrom(_, _, _)
ConvertFrom(turns, i, pushed) ==
    IF i > Len(turns) THEN [threw |-> <<>>, messages |-> pushed]
    ELSE LET step == ConvertTurn(turns[i])
         IN  IF step.threw # <<>> THEN [threw |-> step.threw, messages |-> <<>>]
             ELSE ConvertFrom(turns, i + 1,
                              pushed \o [k \in 1..Len(step.messages) |->
                                            [message |-> step.messages[k], turn |-> i]])

\* the turns a host builds
WeatherArgs == JsonObject(<<<<"city", "SF">>, <<"unit", "C">>>>)

WeatherCall == ToolCallPart("call_1", "get_weather", WeatherArgs)

TimeCall == ToolCallPart("call_2", "get_time", JsonObject(<<>>))

Turns ==
    { Turn("system", "You are helpful."),
      Turn("user", <<TextPart("Hi")>>),
      Turn("user", <<TextPart("Look"), ImageUrlPart("https://example.com/a.png")>>),
      Turn("user", <<TextPart("Read"), FilePart>>),
      Turn("assistant", <<TextPart("Hello"), TextPart(" there")>>),
      Turn("assistant", <<WeatherCall>>),
      Turn("assistant", <<TextPart("Let me check."), WeatherCall, TextPart(" One moment."),
                          TimeCall>>),
      Turn("assistant", <<TimeCall, TextPart("Checking."), WeatherCall>>),
      Turn("assistant", <<TextPart("")>>),
      Turn("assistant", <<>>),
      Turn("tool", <<ToolResultPart("call_1", "get_weather", JsonObject(<<<<"temp", "18">>>>)),
                     ToolResultPart("call_2", "get_time", JsonString("12:00"))>>) }

\* the host has built a conversation
InitConvert ==
    /\ prompt \in UNION {[1..n -> Turns] : n \in 0..MaxTurns}
    /\ converted = <<>>
    /\ convOrigin = <<>>

\* convertToDudoxxChatMessages(prompt); the function only reads its argument
Convert ==
    /\ mode = "convert"
    /\ Len(converted) < MaxConversions
    /\ LET outcome == ConvertFrom(prompt, 1, <<>>)
       IN  /\ converted' = Append(converted,
                                  [threw |-> outcome.threw,
                                   messages |-> [k \in 1..Len(outcome.messages) |->
                                                    outcome.messages[k].message]])
           /\ convOrigin' = [k \in 1..Len(outcome.messages) |-> outcome.messages[k].turn]
    /\ UNCHANGED <<mode, prompt, streamVars, genVars, monVars, errVars, prepVars, embedVars, hostVars>>

(***************************************************************************)
(* Specification of the chat model: the host called doStream (twice, for   *)
(* streams A and B) or doGenerate.                                         *)
(***************************************************************************)
IdleGenerate == genResponse = <<>> /\ genResult = <<>> /\ genOrigin = <<>>

IdleMonitor ==
    /\ config = <<>>
    /\ activeExecutions = {}
    /\ completedExecutions = <<>>
    /\ calls = <<>>
    /\ executePlan = <<>>
    /\ completionLog = <<>>
    /\ updates = 0

IdleErrors == retryCall = <<>> /\ classified = <<>>

IdleConvert == prompt = <<>> /\ converted = <<>> /\ convOrigin = <<>>

IdlePrepare == toolMode = <<>> /\ prepared = <<>> /\ prepOrigin = <<>>

IdleEmbed == embedCall = <<>>

IdleHost == held = <<>> /\ lastUpdate = <<>>

Init ==
    /\ InitStream
    /\ IdleMonitor
    /\ IdleErrors
    /\ IdleConvert
    /\ IdlePrepare
    /\ IdleEmbed
    /\ IdleHost
    /\ \/ mode = "stream" /\ IdleGenerate
       \/ mode = "generate" /\ InitGenerate

Next ==
    \/ \E s \in Streams, chunk \in Chunks : Transform(s, chunk)
    \/ \E s \in Streams : Flush(s)
    \/ DoGenerate

Spec == Init /\ [][Next]_vars

\* the finish_reason values a server sends in choices[0]: the five the map
\* knows, one it does not know, and the empty string
WireFinishReasons ==
    {"stop", "length", "function_call", "tool_calls", "content_filter", "eos", ""}

\* the chunks of a stream that ends for each of these reasons: a text chunk
\* without finish_reason, a closing chunk per reason, a chunk without
\* choices and one that failed to parse
FinishChunks ==
    {FailedChunk, ParsedChunk(<<>>, <<>>),
     ParsedChunk(<<>>, <<Choice(Undefined, "Hi", <<>>)>>)}
    \cup {ParsedChunk(<<>>, <<Choice(fr, Undefined, <<>>)>>) : fr \in WireFinishReasons}

\* one stream fed with these chunks and closed
InitFinish ==
    /\ mode = "stream"
    /\ InitStream
    /\ IdleGenerate
    /\ IdleMonitor
    /\ IdleErrors
    /\ IdleConvert
    /\ IdlePrepare
    /\ IdleEmbed
    /\ IdleHost

NextFinish ==
    \/ \E chunk \in FinishChunks : Transform("A", chunk)
    \/ Flush("A")

SpecFinish == InitFinish /\ [][NextFinish]_vars

(***************************************************************************)
(* DudoxxEmbeddingModel.doEmbed (src/src/dudoxx-embedding-model.ts)        *)
(***************************************************************************)
\* variant: the getter without its default, no limit when the setting is absent
maxEmbeddingsPerCallUnlimited(settings) ==
    IF settings.maxEmbeddingsPerCall = <<>> THEN MaxValues + 1
    ELSE settings.maxEmbeddingsPerCall[1]

\* get maxEmbeddingsPerCall(): this.settings.maxEmbeddingsPerCall ?? 32
maxEmbeddingsPerCall(settings) ==
    IF settings.maxEmbeddingsPerCall = <<>> THEN 32
    ELSE settings.maxEmbeddingsPerCall[1]

TooManyEmbeddingValuesForCallError(max, values) ==
    [name |-> "AI_TooManyEmbeddingValuesForCallError", maxEmbeddingsPerCall |-> max,
     values |-> values]

\* the settings of the model: the per-call maximum absent or a number
EmbeddingSettings == [maxEmbeddingsPerCall : {<<>>, <<0>>, <<2>>, <<32>>, <<MaxValues>>}]

\* the values argument: n texts
EmbedValues(n) == [i \in 1..n |-> "text" \o ToString(i)]

\* the host calls doEmbed({values}) on a model with these settings
InitEmbed ==
    \E settings \in EmbeddingSettings, n \in 0..MaxValues :
        embedCall = <<[settings |-> settings, values |-> EmbedValues(n), pc |-> "called",
                       requests |-> <<>>, outcome |-> <<>>]>>

\* doEmbed up to its await: the check of the number of values, then the
\* request body and postJsonToApi
DoEmbed ==
    /\ mode = "embed"
    /\ embedCall[1].pc = "called"
    /\ LET call == embedCall[1]
           max == maxEmbeddingsPerCall(call.settings)
       IN  IF Len(call.values) > max
              THEN embedCall' =
                      <<[call EXCEPT !.pc = "rejected",
                                     !.outcome = <<[threw |-> <<TooManyEmbeddingValuesForCallError(
                                                                    max, call.values)>>,
                                                    embeddings |-> 0]>>]>>
              ELSE embedCall' =
                      <<[call EXCEPT !.pc = "awaiting",
                                     !.requests = Append(@, [url |-> "/embeddings",
                                                             input |-> call.values])]>>
    /\ UNCHANGED <<mode, streamVars, genVars, monVars, errVars, convVars, prepVars, hostVars>>

\* the server answers with one embedding per input
EmbedResolves ==
    /\ mode = "embed"
    /\ embedCall[1].pc = "awaiting"
    /\ embedCall' = <<[embedCall[1] EXCEPT
                          !.pc = "returned",
                          !.outcome = <<[threw |-> <<>>,
                                         embeddings |-> Len(embedCall[1].values)]>>]>>
    /\ UNCHANGED <<mode, streamVars, genVars, monVars, errVars, convVars, prepVars, hostVars>>

\* the server answers with a failure status, which dudoxxFailedResponseHandler
\* turns into the error thrown
EmbedRejects(status) ==
    /\ mode = "embed"
    /\ embedCall[1].pc = "awaiting"
    /\ embedCall' = <<[embedCall[1] EXCEPT
                          !.pc = "rejected",
                          !.outcome = <<[threw |-> <<dudoxxFailedResponseHandler(status)>>,
                                         embeddings |-> 0]>>]>>
    /\ UNCHANGED <<mode, streamVars, genVars, monVars, errVars, convVars, prepVars, hostVars>>

InitEmbedOnly ==
    /\ mode = "embed"
    /\ InitStream
    /\ IdleGenerate
    /\ IdleMonitor
    /\ IdleErrors
    /\ IdleConvert
    /\ IdlePrepare
    /\ InitEmbed
    /\ IdleHost

NextEmbed ==
    \/ DoEmbed
    \/ EmbedResolves
    \/ \E status \in {429, 500} : EmbedRejects(status)

SpecEmbed == InitEmbedOnly /\ [][NextEmbed]_vars

\* the tool execution monitor on its own
InitMonitorOnly ==
    /\ mode = "monitor"
    /\ InitStream
    /\ IdleGenerate
    /\ IdleErrors
    /\ IdleConvert
    /\ IdlePrepare
    /\ IdleEmbed
    /\ IdleHost
    /\ InitMonitor

SpecMonitor == InitMonitorOnly /\ [][NextMonitor]_vars

\* the Partial<ToolExecutionConfig> arguments the host passes to updateConfig
ConfigPatches ==
    { [maxRetries |-> 0], [maxRetries |-> 2], [enableMetrics |-> FALSE],
      [timeoutMs |-> 5000, retryDelayMs |-> 100] }

\* { ...this.config, ...config }
Spread(base, patch) ==
    [k \in DOMAIN base \cup DOMAIN patch |-> IF k \in DOMAIN patch THEN patch[k] ELSE base[k]]

\* updateConfig(config)
UpdateConfig(patch) ==
    /\ mode = "monitor"
    /\ updates < MaxUpdates
    /\ updates' = updates + 1
    /\ config' = Spread(config, patch)
    /\ lastUpdate' = <<[before |-> config, patch |-> patch]>>
    /\ UNCHANGED <<mode, activeExecutions, completedExecutions, calls, executePlan,
                   completionLog, held, streamVars, genVars, errVars, convVars, prepVars,
                   embedVars>>

\* the monitor of a host that starts with maxRetries 1 and metrics enabled and
\* calls updateConfig at any time
InitMonitorConfig ==
    /\ InitMonitorOnly
    /\ config.maxRetries = 1
    /\ config.enableMetrics
    /\ \A a \in DOMAIN executePlan : executePlan[a] # "rejectNonError"

NextMonitorConfig ==
    \/ NextMonitor
    \/ \E patch \in ConfigPatches : UpdateConfig(patch)

SpecMonitorConfig == InitMonitorConfig /\ [][NextMonitorConfig]_vars

\* variant: getConfig hands out the monitor's own configuration object
getConfigSameObject(cfg) == [sameObject |-> TRUE, value |-> cfg]

\* getConfig(): { ...this.config }, a new object with the same members
getConfig(cfg) == [sameObject |-> FALSE, value |-> cfg]

\* const c = monitor.getConfig()
GetConfig ==
    /\ mode = "monitor"
    /\ held = <<>>
    /\ held' = <<getConfig(config)>>
    /\ UNCHANGED <<mode, monVars, lastUpdate, streamVars, genVars, errVars, convVars,
                   prepVars, embedVars>>

\* the assignments the host makes to the object it holds
HostWrites == {[maxRetries |-> 9], [enableMetrics |-> FALSE], [timeoutMs |-> 1]}

\* c.key = value: a write to the object getConfig returned, which is a write
\* to the monitor's configuration only if that is the same object
WriteToReturned(write) ==
    /\ mode = "monitor"
    /\ held # <<>>
    /\ Spread(held[1].value, write) # held[1].value
    /\ held' = <<[held[1] EXCEPT !.value = Spread(@, write)]>>
    /\ config' = IF held[1].sameObject THEN Spread(config, write) ELSE config
    /\ UNCHANGED <<mode, activeExecutions, completedExecutions, calls, executePlan,
                   completionLog, updates, lastUpdate, streamVars, genVars, errVars,
                   convVars, prepVars, embedVars>>

\* a host that reads and updates the configuration of an idle monitor
NextMonitorHost ==
    \/ \E patch \in ConfigPatches : UpdateConfig(patch)
    \/ GetConfig
    \/ \E write \in HostWrites : WriteToReturned(write)

SpecMonitorHost == InitMonitorOnly /\ [][NextMonitorHost]_vars

\* the entry that the n-th completed invocation of the process left behind
EarlierEntry(n) ==
    [toolName |-> "failing_tool", executionId |-> "failing_tool_" \o ToString(n),
     status |-> "success", retryCount |-> 0]

\* the monitor late in the life of the process: metrics were enabled and n
\* invocations have completed, which fill the history up to its capacity or
\* leave a few slots free
InitMonitorHistory ==
    /\ mode = "monitor"
    /\ InitStream
    /\ IdleGenerate
    /\ IdleErrors
    /\ IdleConvert
    /\ IdlePrepare
    /\ IdleEmbed
    /\ IdleHost
    /\ config \in [timeoutMs : {DefaultTimeoutMs},
                   maxRetries : 0..1,
                   retryDelayMs : {DefaultRetryDelayMs},
                   enableMetrics : BOOLEAN,
                   enablePerformanceTracking : {TRUE}]
    /\ activeExecutions = <<>>
    /\ calls = [c \in CallIds |-> IdleCall]
    /\ executePlan \in [1..(MaxRetriesBound + 1) -> {"resolve", "reject", "hang"}]
    /\ \E n \in (HistoryCapacity - MaxFreeSlots)..HistoryCapacity :
          /\ completedExecutions = [i \in 1..n |-> EarlierEntry(i)]
          /\ completionLog = [i \in 1..n |-> [entry |-> EarlierEntry(i), call |-> "earlier",
                                              enableMetrics |-> TRUE]]
    /\ updates = 0

SpecMonitorHistory == InitMonitorHistory /\ [][NextMonitor]_vars

\* maxDelayMs: number = 60000, the default cap of exponentialBackoff
MaxDelayMs == 60000

\* Math.min(baseDelayMs * Math.pow(2, attempt), maxDelayMs)
CappedDelay(attempt, baseDelayMs, maxDelayMs) ==
    Min(baseDelayMs * Pow2(attempt), maxDelayMs)

\* the monitor of a host that configured the default or a long base delay
\* and the largest number of retries
InitMonitorBackoff ==
    /\ mode = "monitor"
    /\ InitStream
    /\ IdleGenerate
    /\ IdleErrors
    /\ IdleConvert
    /\ IdlePrepare
    /\ IdleEmbed
    /\ IdleHost
    /\ config \in [timeoutMs : {DefaultTimeoutMs},
                   maxRetries : {MaxRetriesBound},
                   retryDelayMs : {DefaultRetryDelayMs, 40 * DefaultRetryDelayMs},
                   enableMetrics : BOOLEAN,
                   enablePerformanceTracking : {TRUE}]
    /\ activeExecutions = <<>>
    /\ completedExecutions = <<>>
    /\ calls = [c \in CallIds |-> IdleCall]
    /\ executePlan \in [1..(MaxRetriesBound + 1) -> {"resolve", "reject", "hang"}]
    /\ completionLog = <<>>
    /\ updates = 0

SpecMonitorBackoff == InitMonitorBackoff /\ [][NextMonitor]_vars

\* the error utilities: the host called withRetry, or caught a failure and
\* classifies it
InitErrors ==
    /\ InitStream
    /\ IdleGenerate
    /\ IdleMonitor
    /\ IdleConvert
    /\ IdlePrepare
    /\ IdleEmbed
    /\ IdleHost
    /\ \/ mode = "retry" /\ InitRetry /\ classified = <<>>
       \/ mode = "classify" /\ InitClassify /\ retryCall = <<>>

SpecErrors == InitErrors /\ [][NextErrors]_vars

\* the message converter on its own
InitConvertOnly ==
    /\ mode = "convert"
    /\ InitStream
    /\ IdleGenerate
    /\ IdleMonitor
    /\ IdleErrors
    /\ IdlePrepare
    /\ IdleEmbed
    /\ IdleHost
    /\ InitConvert

NextConvert == Convert

SpecConvert == InitConvertOnly /\ [][NextConvert]_vars

(***************************************************************************)
(* prepareTools (src/src/dudoxx-prepare-tools.ts)                          *)
(***************************************************************************)
\* a value found in the name field of a tool: its typeof and what a template
\* literal prints for it
NameValue(kind, text) == [kind |-> kind, text |-> text]

UndefinedName == NameValue("undefined", Undefined)

\* !tool.name
NameIsFalsy(name) ==
    \/ name.kind = "undefined"
    \/ name.kind = "string" /\ name.text = ""
    \/ name.kind = "number" /\ name.text = "0"

NameLetters ==
    {"a", "b", "c", "d", "e", "f", "g", "h", "i", "j", "k", "l", "m", "n", "o", "p",
     "q", "r", "s", "t", "u", "v", "w", "x", "y", "z",
     "A", "B", "C", "D", "E", "F", "G", "H", "I", "J", "K", "L", "M", "N", "O", "P",
     "Q", "R", "S", "T", "U", "V", "W", "X", "Y", "Z"}

RECURSIVE NameTailMatches(_, _)
NameTailMatches(s, i) ==
    \/ i > Len(s)
    \/ /\ Char(s, i) \in NameLetters \cup JsonDigits \cup {"_"}
       /\ NameTailMatches(s, i + 1)

\* /^[a-zA-Z][a-zA-Z0-9_]*$/.test(name)
ToolNameFormat(s) == Char(s, 1) \in NameLetters /\ NameTailMatches(s, 2)

\* variant: the first character may be any character of a name
ToolNameFormatAnyStart(s) == Len(s) > 0 /\ NameTailMatches(s, 1)

\* a value found in the parameters field of a tool: absent, a schema object
\* (with the typeof of the three members the code looks at), or an object
\* that JSON.stringify refuses (a circular structure)
Schema(type, required, properties) ==
    [kind |-> "object", type |-> type, required |-> required, properties |-> properties]

UndefinedParameters ==
    [kind |-> "undefined", type |-> Undefined, required |-> "undefined",
     properties |-> "undefined"]

CircularParameters ==
    [kind |-> "circular", type |-> "object", required |-> "undefined",
     properties |-> "object"]

\* { type: 'object', properties: {} }
EmptyObjectSchema == Schema("object", "undefined", "object")

FunctionTool(name, description, parameters) ==
    [type |-> "function", name |-> name, description |-> description,
     parameters |-> parameters]

ProviderDefinedTool(name) ==
    [type |-> "provider-defined", name |-> name, description |-> <<>>,
     parameters |-> UndefinedParameters]

OtherWarning(message) == [type |-> "other", message |-> message]

UnsupportedToolWarning(tool) == [type |-> "unsupported-tool", tool |-> tool]

\* the warnings of the JSON Schema structure checks, in the order pushed
SchemaWarnings(tool) ==
    LET schema == tool.parameters
        name == tool.name.text
    IN  (IF schema.type # Undefined /\ schema.type # "object"
            THEN <<OtherWarning("Tool " \o name \o ": Root parameters type should be 'object', got '"
                                \o schema.type \o "'")>>
            ELSE <<>>)
        \o (IF schema.required \notin {"undefined", "array"}
               THEN <<OtherWarning("Tool " \o name \o ": 'required' must be an array")>>
               ELSE <<>>)
        \o (IF schema.properties \notin {"undefined", "object"}
               THEN <<OtherWarning("Tool " \o name \o ": 'properties' must be an object")>>
               ELSE <<>>)

\* the element pushed on dudoxxTools
WireTool(tool) ==
    [type |-> "function",
     function |-> [name |-> tool.name.text,
                   description |-> IF tool.description = <<>> \/ tool.description = <<"">>
                                      THEN "Tool: " \o tool.name.text
                                      ELSE tool.description[1],
                   parameters |-> IF tool.parameters.kind = "undefined"
                                     THEN EmptyObjectSchema
                                     ELSE tool.parameters]]

\* variant: the description is sent as given, the empty string when absent
WireToolPlainDescription(tool) ==
    [type |-> "function",
     function |-> [name |-> tool.name.text,
                   description |-> IF tool.description = <<>> THEN "" ELSE tool.description[1],
                   parameters |-> IF tool.parameters.kind = "undefined"
                                     THEN EmptyObjectSchema
                                     ELSE tool.parameters]]

\* variant: a tool with a bad name is dropped without a warning
PrepareToolSilentSkip(tool) ==
    IF tool.type = "provider-defined"
       THEN [warnings |-> <<UnsupportedToolWarning(tool)>>, pushed |-> <<>>,
             registered |-> FALSE]
    ELSE IF NameIsFalsy(tool.name) \/ tool.name.kind # "string"
       THEN [warnings |-> <<>>,
             pushed |-> <<>>, registered |-> FALSE]
    ELSE IF ~ToolNameFormat(tool.name.text)
       THEN [warnings |-> <<>>,
             pushed |-> <<>>, registered |-> FALSE]
    ELSE IF tool.parameters.kind = "circular"
       THEN [warnings |-> <<OtherWarning("Invalid parameters schema for tool " \o tool.name.text
                 \o ": Converting circular structure to JSON")>>,
             pushed |-> <<>>, registered |-> FALSE]
    ELSE [warnings |-> IF tool.parameters.kind = "object" THEN SchemaWarnings(tool) ELSE <<>>,
          pushed |-> <<WireTool(tool)>>, registered |-> TRUE]

\* one iteration of the loop over the tools: the warnings it pushes, the wire
\* tool it pushes (or none), and whether it reached the monitor registration
PrepareTool(tool) ==
    IF tool.type = "provider-defined"
       THEN [warnings |-> <<UnsupportedToolWarning(tool)>>, pushed |-> <<>>,
             registered |-> FALSE]
    ELSE IF NameIsFalsy(tool.name) \/ tool.name.kind # "string"
       THEN [warnings |-> <<OtherWarning("Invalid tool name: " \o tool.name.text
                                         \o ". Tool names must be non-empty strings.")>>,
             pushed |-> <<>>, registered |-> FALSE]
    ELSE IF ~ToolNameFormat(tool.name.text)
       THEN [warnings |-> <<OtherWarning("Invalid tool name format: " \o tool.name.text
                 \o ". Must start with letter and contain only alphanumeric characters and underscores.")>>,
             pushed |-> <<>>, registered |-> FALSE]
    ELSE IF tool.parameters.kind = "circular"
       THEN [warnings |-> <<OtherWarning("Invalid parameters schema for tool " \o tool.name.text
                 \o ": Converting circular structure to JSON")>>,
             pushed |-> <<>>, registered |-> FALSE]
    ELSE [warnings |-> IF tool.parameters.kind = "object" THEN SchemaWarnings(tool) ELSE <<>>,
          pushed |-> <<WireTool(tool)>>, registered |-> TRUE]

\* the registration with the monitoring system
RegisterTool(cfg) ==
    IF cfg.enableMetrics
       THEN Spread(cfg, [enableMetrics |-> TRUE, enablePerformanceTracking |-> TRUE])
       ELSE cfg

\* the loop over the tools from position i on
RECURSIVE PrepareLoop(_, _, _)
PrepareLoop(tools, i, acc) ==
    IF i > Len(tools) THEN acc
    ELSE LET step == PrepareTool(tools[i])
         IN  PrepareLoop(tools, i + 1,
                [dudoxxTools |-> acc.dudoxxTools \o step.pushed,
                 toolWarnings |-> acc.toolWarnings \o step.warnings,
                 config |-> IF step.registered THEN RegisterTool(acc.config) ELSE acc.config,
                 toolOrigin |-> acc.toolOrigin \o [k \in 1..Len(step.pushed) |-> i],
                 warningOrigin |-> acc.warningOrigin \o [k \in 1..Len(step.warnings) |-> i]])

ToolChoice(type, toolName) == [type |-> type, toolName |-> toolName]

\* a tool_choice of the request body: one of the strings, or the object that
\* names a function
ChoiceString(type) == [kind |-> "string", value |-> type]

ChoiceFunction(name) ==
    [kind |-> "object", value |-> [type |-> "function", function |-> [name |-> name]]]

\* variant: a directive of an unknown kind falls through to auto
MapToolChoiceDefaultAuto(toolChoice) ==
    IF toolChoice = <<>> THEN [threw |-> <<>>, tool_choice |-> <<>>]
    ELSE LET type == toolChoice[1].type
         IN  CASE type \in {"auto", "none", "required"} ->
                      [threw |-> <<>>, tool_choice |-> <<ChoiceString(type)>>]
               [] type = "tool" ->
                      [threw |-> <<>>, tool_choice |-> <<ChoiceFunction(toolChoice[1].toolName)>>]
               [] OTHER -> [threw |-> <<>>, tool_choice |-> <<ChoiceString("auto")>>]

\* the switch over toolChoice.type: what is thrown and the tool_choice returned
MapToolChoice(toolChoice) ==
    IF toolChoice = <<>> THEN [threw |-> <<>>, tool_choice |-> <<>>]
    ELSE LET type == toolChoice[1].type
         IN  CASE type \in {"auto", "none", "required"} ->
                      [threw |-> <<>>, tool_choice |-> <<ChoiceString(type)>>]
               [] type = "tool" ->
                      [threw |-> <<>>, tool_choice |-> <<ChoiceFunction(toolChoice[1].toolName)>>]
               [] OTHER ->
                      [threw |-> <<UnsupportedFunctionalityError(
                                      "Unsupported tool choice type: " \o type)>>,
                       tool_choice |-> <<>>]

\* prepareTools(mode) under the monitor configuration cfg: the value returned
\* or thrown, the configuration of the global monitor afterwards, and the
\* input positions of the returned tools and warnings
PrepareToolsFrom(m, cfg) ==
    IF m.tools = <<>> \/ m.tools = <<<<>>>>
       THEN [threw |-> <<>>, tools |-> <<>>, tool_choice |-> <<>>, toolWarnings |-> <<>>,
             config |-> cfg, toolOrigin |-> <<>>, warningOrigin |-> <<>>]
    ELSE LET loop == PrepareLoop(m.tools[1], 1,
                        [dudoxxTools |-> <<>>, toolWarnings |-> <<>>, config |-> cfg,
                         toolOrigin |-> <<>>, warningOrigin |-> <<>>])
             choice == MapToolChoice(m.toolChoice)
         IN  IF choice.threw # <<>>
                THEN [threw |-> choice.threw, tools |-> <<>>, tool_choice |-> <<>>,
                      toolWarnings |-> <<>>, config |-> loop.config,
                      toolOrigin |-> <<>>, warningOrigin |-> <<>>]
                ELSE [threw |-> <<>>, tools |-> <<loop.dudoxxTools>>,
                      tool_choice |-> choice.tool_choice,
                      toolWarnings |-> loop.toolWarnings, config |-> loop.config,
                      toolOrigin |-> loop.toolOrigin, warningOrigin |-> loop.warningOrigin]

WeatherSchema == Schema("object", "array", "object")

\* the tool definitions a caller passes: well-formed ones with and without
\* description and parameters, malformed ones of every kind the loop looks
\* for, and ones whose schema has one or all of the defects it warns about
ToolPool ==
    { FunctionTool(NameValue("string", "get_weather"), <<"Get the weather">>, WeatherSchema),
      FunctionTool(NameValue("string", "t2"), <<>>, UndefinedParameters),
      FunctionTool(NameValue("string", "getTime"), <<"">>, Schema("string", "string", "string")),
      FunctionTool(NameValue("string", "list_files"), <<"List files">>,
                   Schema("object", "string", "object")),
      FunctionTool(NameValue("string", "read_file"), <<"Read a file">>,
                   Schema("object", "array", "string")),
      FunctionTool(NameValue("string", "search"), <<"Search">>,
                   Schema("array", "array", "object")),
      FunctionTool(UndefinedName, <<"No name">>, WeatherSchema),
      FunctionTool(NameValue("string", ""), <<>>, UndefinedParameters),
      FunctionTool(NameValue("number", "42"), <<>>, WeatherSchema),
      FunctionTool(NameValue("string", "get-weather"), <<"Get the weather">>, WeatherSchema),
      FunctionTool(NameValue("string", "1tool"), <<>>, UndefinedParameters),
      FunctionTool(NameValue("string", "loop"), <<"Circular">>, CircularParameters),
      ProviderDefinedTool(NameValue("string", "computer")) }

ToolLists == UNION { [1..n -> ToolPool] : n \in 0..MaxTools }

ToolChoices ==
    { <<>>, <<ToolChoice("auto", Undefined)>>, <<ToolChoice("none", Undefined)>>,
      <<ToolChoice("required", Undefined)>>, <<ToolChoice("tool", "get_weather")>>,
      <<ToolChoice("any", Undefined)>> }

\* the mode argument: tools absent or a list, toolChoice absent or a directive
ToolModes == [tools : {<<>>} \cup {<<l>> : l \in ToolLists}, toolChoice : ToolChoices]

\* getArgs is about to call prepareTools(mode)
InitPrepare ==
    /\ toolMode \in {<<m>> : m \in ToolModes}
    /\ prepared = <<>>
    /\ prepOrigin = <<>>

\* the call of prepareTools(mode)
PrepareTools ==
    /\ mode = "prepare"
    /\ prepared = <<>>
    /\ \E r \in {PrepareToolsFrom(toolMode[1], config)} :
           /\ prepared' = <<[threw |-> r.threw, tools |-> r.tools,
                             tool_choice |-> r.tool_choice, toolWarnings |-> r.toolWarnings]>>
           /\ prepOrigin' = <<[tools |-> r.toolOrigin, warnings |-> r.warningOrigin]>>
           /\ config' = r.config
    /\ UNCHANGED <<mode, activeExecutions, completedExecutions, calls, executePlan,
                   completionLog, updates, toolMode, streamVars, genVars, errVars,
                   convVars, embedVars, hostVars>>

\* the tool preparer on its own, with the global monitor as the host left it
InitPrepareOnly ==
    /\ mode = "prepare"
    /\ InitStream
    /\ IdleGenerate
    /\ IdleErrors
    /\ IdleConvert
    /\ InitPrepare
    /\ IdleEmbed
    /\ IdleHost
    /\ config \in [timeoutMs : {DefaultTimeoutMs},
                   maxRetries : {MaxRetriesBound},
                   retryDelayMs : {DefaultRetryDelayMs},
                   enableMetrics : BOOLEAN,
                   enablePerformanceTracking : BOOLEAN]
    /\ activeExecutions = <<>>
    /\ completedExecutions = <<>>
    /\ calls = <<>>
    /\ executePlan = <<>>
    /\ completionLog = <<>>
    /\ updates = 0

NextPrepare == PrepareTools

SpecPrepare == InitPrepareOnly /\ [][NextPrepare]_vars

\* the monitor with the event loop's guarantees: a timer that was set fires,
\* a promise that is going to settle settles, and the continuation runs
FairMonitor ==
    \A c \in CallIds :
        /\ WF_vars(ExecuteResolves(c))
        /\ WF_vars(ExecuteRejects(c))
        /\ WF_vars(TimeoutFires(c))
        /\ WF_vars(SleepEnds(c))

SpecMonitorLive == InitMonitorOnly /\ [][NextMonitor]_vars /\ FairMonitor

(***************************************************************************)
(* Properties of the streaming engine.                                     *)
(***************************************************************************)
Count(seq, type) == Cardinality({k \in DOMAIN seq : seq[k].type = type})

ParsedCount(seq) == Cardinality({k \in DOMAIN seq : seq[k].success})

\* the delta.tool_calls entry part k of stream s was built from
OriginEntry(s, k) ==
    chunksIn[s][origin[s][k][1]].choices[1].delta.tool_calls[origin[s][k][2]]

ToolParts(s) == {k \in DOMAIN events[s] : events[s][k].type = "tool-call-delta"}

C2_SameIndexSameRepairedId ==
    \A s \in Streams :
        \A i \in ToolParts(s) :
            /\ Truthy(OriginEntry(s, i).id)
                   => events[s][i].toolCallId = OriginEntry(s, i).id
            /\ \A j \in ToolParts(s) :
                   ( /\ OriginEntry(s, i).id = Undefined
                     /\ OriginEntry(s, j).id = Undefined
                     /\ OriginEntry(s, i).index = OriginEntry(s, j).index )
                       => events[s][i].toolCallId = events[s][j].toolCallId

\* the tool calls doGenerate returned ({} when it returned none)
ReturnedToolCalls ==
    IF genResult # <<>> /\ genResult[1].threw = <<>> /\ genResult[1].toolCalls # <<>>
    THEN genResult[1].toolCalls[1] ELSE <<>>

\* the message.tool_calls entry returned tool call k was built from
GenerateOriginEntry(k) == genResponse[1].tool_calls[1][genOrigin[k]]

GeneratedIds ==
    {StreamGeneratedId(stamp) : stamp \in GenStamps}
    \cup {GenerateGeneratedId(tc, stamp) : tc \in WireToolCalls, stamp \in GenStamps}

C4_RepairedIdsUnique ==
    /\ \A s \in Streams : \A i, j \in ToolParts(s) :
           ( /\ OriginEntry(s, i).id = Undefined
             /\ OriginEntry(s, j).id = Undefined
             /\ OriginEntry(s, i).index # OriginEntry(s, j).index )
               => events[s][i].toolCallId # events[s][j].toolCallId
    /\ \A i, j \in DOMAIN ReturnedToolCalls :
           ( /\ i # j
             /\ GenerateOriginEntry(i).id = Undefined
             /\ GenerateOriginEntry(j).id = Undefined )
               => ReturnedToolCalls[i].toolCallId # ReturnedToolCalls[j].toolCallId

UsageChunks(seq) == {k \in DOMAIN seq : seq[k].success /\ seq[k].usage # <<>>}

C6_FailedChunkOnlyEmitsError ==
    [][\A s \in Streams :
          /\ ( /\ Len(chunksIn'[s]) = Len(chunksIn[s]) + 1
               /\ ~Last(chunksIn'[s]).success )
                 => /\ events'[s] = Append(events[s], ErrorPart)
                    /\ finishReason'[s] = finishReason[s]
                    /\ usage'[s] = usage[s]
                    /\ chunkNumber'[s] = chunkNumber[s]
                    /\ ~flushed'[s]
          /\ chunkNumber'[s] = ParsedCount(chunksIn'[s])]_vars

\* C6 witness: a parse-failed chunk, then a parsed chunk with tool calls,
\* then flush: error, response-metadata, the chunk's parts, finish.
C6_Witness ==
    \E s \in Streams :
        /\ flushed[s]
        /\ Len(chunksIn[s]) = 2
        /\ ~chunksIn[s][1].success
        /\ chunksIn[s][2].success
        /\ chunkNumber[s] = 1
        /\ Count(events[s], "error") = 1
        /\ Count(events[s], "tool-call-delta") >= 2
        /\ Last(events[s]).type = "finish"

\* <<a, b>> comes before or is <<c, d>> in the order of arrival
Precedes(p, q) == p[1] < q[1] \/ (p[1] = q[1] /\ p[2] <= q[2])

\* C7: parts are enqueued in arrival order: the parts of an earlier chunk
\* before those of a later one, within a chunk the text-delta before the
\* tool-call-delta parts and those in the order of delta.tool_calls; the
\* text of every parsed chunk is already enqueued in the state its transform
\* step leaves, and every part carries the text of the chunk or entry it
\* comes from.
C7_ArrivalOrderPreserved ==
    \A s \in Streams :
        /\ \A i, j \in DOMAIN events[s] :
               i < j => Precedes(origin[s][i], origin[s][j])
        /\ \A i \in DOMAIN events[s] :
               /\ events[s][i].type = "text-delta"
                      => /\ origin[s][i][2] = 0
                         /\ events[s][i].textDelta
                                = chunksIn[s][origin[s][i][1]].choices[1].delta.content
               /\ events[s][i].type = "tool-call-delta"
                      => /\ origin[s][i][2] >= 1
                         /\ events[s][i].argsTextDelta
                                \in {"", OriginEntry(s, i).arguments}
        /\ \A c \in DOMAIN chunksIn[s] :
               ( /\ chunksIn[s][c].success
                 /\ chunksIn[s][c].choices # <<>>
                 /\ chunksIn[s][c].choices[1].delta.content # Undefined )
                   => \E i \in DOMAIN events[s] :
                          /\ events[s][i].type = "text-delta"
                          /\ origin[s][i] = <<c, 0>>

\* C7 witness: two chunks, the first with text and two tool calls, the second
\* with two tool calls, all enqueued.
C7_Witness ==
    \E s \in Streams :
        /\ Len(chunksIn[s]) = 2
        /\ Count(events[s], "text-delta") = 1
        /\ Count(events[s], "tool-call-delta") >= 5
        /\ \E i, j \in ToolParts(s) : origin[s][i][1] = 1 /\ origin[s][j][1] = 2

\* C8: a step of one stream (a chunk for it, or its flush) leaves the parts,
\* finish reason, usage and chunk counter of every other stream as they
\* were, so what a stream emits depends on its own chunks only: its counter
\* is the number of its own parsed chunks.
C8_StreamsShareNoState ==
    [][\A s \in Streams :
          /\ (chunksIn'[s] = chunksIn[s] /\ flushed'[s] = flushed[s])
                 => /\ events'[s] = events[s]
                    /\ finishReason'[s] = finishReason[s]
                    /\ usage'[s] = usage[s]
                    /\ chunkNumber'[s] = chunkNumber[s]
          /\ chunkNumber'[s] = ParsedCount(chunksIn'[s])
          /\ Count(events'[s], "response-metadata")
                 = (IF ParsedCount(chunksIn'[s]) > 0 THEN 1 ELSE 0)]_vars

\* C8 witness: both streams received parsed chunks and each emitted its own
\* response-metadata part; they end with different usage and finish reason.
C8_Witness ==
    /\ ParsedCount(chunksIn["A"]) >= 2
    /\ ParsedCount(chunksIn["B"]) >= 1
    /\ flushed["A"] /\ flushed["B"]
    /\ Count(events["A"], "response-metadata") = 1
    /\ Count(events["B"], "response-metadata") = 1
    /\ usage["A"] # usage["B"]
    /\ finishReason["A"] # finishReason["B"]

(***************************************************************************)
(* Properties of the tool execution monitor.                               *)
(***************************************************************************)
\* the invocations of executeFunction a call may make: 1..maxRetries + 1
Attempts == 1..(config.maxRetries + 1)

\* executeFunction fails on each of its first n invocations
FailsOnFirst(n) == \A a \in 1..n : executePlan[a] # "resolve"

\* C9: with maxRetries = N and an executeFunction that fails on every
\* attempt, a finished call has invoked executeFunction exactly N + 1 times
\* and returned an error, no result, metrics.status 'error' and
\* metrics.retryCount = N.
C9_AlwaysFailingRunsAllAttempts ==
    \A c \in CallIds :
        (calls[c].pc = "done" /\ FailsOnFirst(config.maxRetries + 1))
            => /\ calls[c].executed = config.maxRetries + 1
               /\ calls[c].returned[1].error # <<>>
               /\ calls[c].returned[1].result = <<>>
               /\ calls[c].metrics.status = "error"
               /\ calls[c].metrics.retryCount = config.maxRetries

\* C10: with an executeFunction that fails on its first k invocations
\* (k <= maxRetries) and resolves on invocation k + 1, a finished call has
\* invoked it exactly k + 1 times and returned the result, no error,
\* metrics.status 'success' and metrics.retryCount = k, with no warning when
\* k = 0 and at least one when k > 0.
C10_SucceedsAfterKFailures ==
    \A c \in CallIds : \A k \in 0..config.maxRetries :
        (calls[c].pc = "done" /\ FailsOnFirst(k) /\ executePlan[k + 1] = "resolve")
            => /\ calls[c].executed = k + 1
               /\ calls[c].returned[1].result = <<"result">>
               /\ calls[c].returned[1].error = <<>>
               /\ calls[c].metrics.status = "success"
               /\ calls[c].metrics.retryCount = k
               /\ (k = 0) <=> (calls[c].warnings = <<>>)

\* executeFunction does not settle before the timer on any attempt
HangsOnEveryAttempt == \A a \in Attempts : executePlan[a] = "hang"

\* C11: when executeFunction does not settle before the timeout timer on any
\* attempt, a started call eventually completes (no step of it waits for
\* executeFunction's promise), and when it has completed it returned an error
\* whose message contains 'timeout', no result, metrics.status 'error' and at
\* least one warning.
C11_TimeoutCompletesWithoutExecute ==
    /\ [](\A c \in CallIds :
            (calls[c].pc = "done" /\ HangsOnEveryAttempt)
                => /\ calls[c].returned[1].error # <<>>
                   /\ Includes(calls[c].returned[1].error[1].message, "timeout")
                   /\ calls[c].returned[1].result = <<>>
                   /\ calls[c].metrics.status = "error"
                   /\ Len(calls[c].warnings) >= 1)
    /\ \A c \in CallIds :
          (calls[c].pc # "idle" /\ HangsOnEveryAttempt) ~> (calls[c].pc = "done")

\* C11 witness: with maxRetries = 2 a call whose executeFunction hung three
\* times has completed with the timer's error.
C11_Witness ==
    /\ config.maxRetries = 2
    /\ HangsOnEveryAttempt
    /\ \E c \in CallIds :
          /\ calls[c].pc = "done"
          /\ calls[c].executed = 3
          /\ calls[c].returned[1].error = <<TimeoutErrorValue(config.timeoutMs)>>

\* the invocations of executeToolWithMonitoring that started and have not returned
InFlight == {c \in CallIds : calls[c].pc \in {"racing", "sleeping"}}

\* the invocations that have returned
Finished == {c \in CallIds : calls[c].pc = "done"}

\* getExecutionStats().activeCount
ActiveCount == Cardinality(DOMAIN activeExecutions)

\* C12: an invocation is in the in-flight map from its start until it
\* completes; a completed one is no longer in the map and was appended exactly
\* once to the completed history, so the history (far below its capacity
\* here) has one entry per finished invocation, and when every started
\* invocation has finished activeCount is 0.
C12_InFlightThenRecordedOnce ==
    /\ \A c \in InFlight : calls[c].executionId \in DOMAIN activeExecutions
    /\ \A k \in DOMAIN activeExecutions : activeExecutions[k] \notin Finished
    /\ Len(completedExecutions) = Cardinality(Finished)
    /\ \A c \in Finished :
          Cardinality({i \in 1..Len(completedExecutions) :
                          completedExecutions[i] = MetricsEntry(calls[c])}) >= 1
    /\ (InFlight = {}) => (ActiveCount = 0)

\* the last (at most capacity) entries of a log, oldest first
MostRecent(log, capacity) ==
    LET n == Len(log)
        m == Min(n, capacity)
    IN  [i \in 1..m |-> log[n - m + i].entry]

\* the completions that ran while enableMetrics was true
RecordedLog == SelectSeq(completionLog, LAMBDA x : x.enableMetrics)

Started == InFlight \cup Finished

\* C14: an execution in flight (or finished) only ever used the configuration
\* that was in force when it started: its timer was created with that
\* timeoutMs, it invoked executeFunction at most that maxRetries + 1 times
\* and gave up only after that many when every attempt failed, its backoff
\* delay is that retryDelayMs * 2^attempt, and its completion was recorded
\* according to that enableMetrics.
C14_InFlightExecutionKeepsStartConfig ==
    \A c \in Started :
        LET call == calls[c]
            start == call.startConfig[1]
        IN  /\ call.timer = start.timeoutMs
            /\ call.executed <= start.maxRetries + 1
            /\ (c \in Finished /\ call.returned[1].error # <<>>)
                   => call.executed = start.maxRetries + 1
            /\ call.pc = "sleeping" => call.delay = start.retryDelayMs * Pow2(call.attempt)
            /\ \A i \in 1..Len(completionLog) :
                   completionLog[i].call = c
                       => completionLog[i].enableMetrics = start.enableMetrics

(***************************************************************************)
(* Properties of the error utilities.                                      *)
(***************************************************************************)
\* C15: withRetry never retries a failure its predicate rejects: when
\* isRetryable returns false for a failure of fn, that failure is the last
\* one (fn is not invoked again: a call whose first failure is rejected has
\* invoked fn exactly once) and that same error is thrown to the caller.
C15_RejectedFailureIsNotRetried ==
    mode = "retry" =>
        \A i \in 1..Len(retryCall.failures) :
            IsRetryableOutcome(retryCall.isRetryable, retryCall.failures[i]) = "false"
                => /\ Len(retryCall.failures) = i
                   /\ retryCall.invoked = i
                   /\ retryCall.pc = "done"
                   /\ retryCall.threw = <<retryCall.failures[i]>>
                   /\ retryCall.returned = <<>>

\* C15 witness: with maxRetries = 2 and the default predicate, fn failed once
\* with an error whose isRetryable is false and the call has thrown it.
C15_Witness ==
    /\ mode = "retry"
    /\ retryCall.maxRetries = 2
    /\ retryCall.isRetryable = "default"
    /\ retryCall.failures = <<PlainError("Non-retryable error", "false", Undefined)>>
    /\ retryCall.invoked = 1
    /\ retryCall.threw = retryCall.failures

\* every failure of fn so far is one the predicate accepts
AllFailuresRetryable ==
    \A i \in 1..Len(retryCall.failures) :
        IsRetryableOutcome(retryCall.isRetryable, retryCall.failures[i]) = "true"

\* C16: withRetry with maxRetries = N invokes fn at most N + 1 times; a call
\* that ended by throwing after retryable failures only has invoked fn
\* exactly N + 1 times and threw the error of the last attempt; a call that
\* returned after k retryable failures has invoked fn exactly k + 1 times
\* and returned fn's value.
C16_AtMostNPlusOneInvocations ==
    (mode = "retry") =>
        /\ retryCall.invoked <= retryCall.maxRetries + 1
        /\ (retryCall.pc = "done" /\ retryCall.threw # <<>> /\ AllFailuresRetryable)
               => /\ retryCall.invoked = retryCall.maxRetries + 1
                  /\ retryCall.threw = <<Last(retryCall.failures)>>
        /\ (retryCall.pc = "done" /\ retryCall.returned # <<>>)
               => /\ AllFailuresRetryable
                  /\ retryCall.invoked = Len(retryCall.failures) + 1
                  /\ retryCall.returned = <<"success">>

\* fn has just failed on an attempt that is not the last one, and the catch
\* block of withRetry has decided
DecidedOnFailure ==
    /\ retryCall.failures # <<>>
    /\ retryCall.invoked = Len(retryCall.failures)
    /\ Len(retryCall.failures) <= retryCall.maxRetries

\* C17: with the default predicate withRetry retries a failure (goes on to
\* the backoff and the next attempt) exactly when classifyError classifies
\* that failure as retryable; a failure classified authentication or
\* validation ends the call.
C17_DefaultPredicateAgreesWithClassifyError ==
    (mode = "retry" /\ retryCall.isRetryable = "default" /\ DecidedOnFailure)
        => LET verdict == classifyError(Last(retryCall.failures))
           IN  /\ (retryCall.pc = "backoff") <=> verdict.isRetryable
               /\ verdict.type \in {"authentication", "validation"} => retryCall.pc = "done"

\* the type and retryability the taxonomy gives to a failure: the first row
\* that applies
TaxonomyRow(error) ==
    CASE error.class = "DudoxxRateLimitError" -> <<"rate_limit", TRUE>>
      [] error.class = "DudoxxTimeoutError" -> <<"timeout", TRUE>>
      [] error.class = "APICallError" /\ error.statusCode \in {401, 403} ->
            <<"authentication", FALSE>>
      [] error.class = "APICallError" /\ error.statusCode \in {400, 422} ->
            <<"validation", FALSE>>
      [] error.class = "APICallError" /\ error.statusCode >= 500 -> <<"server", TRUE>>
      [] /\ ~(error.class = "APICallError"
              /\ (error.statusCode \in {400, 401, 403, 422} \/ error.statusCode >= 500))
         /\ error.class \notin {"DudoxxRateLimitError", "DudoxxTimeoutError"}
         /\ error.code \in {"ECONNRESET", "ENOTFOUND"} -> <<"network", TRUE>>
      [] OTHER -> <<"unknown", FALSE>>

\* C18: classifyError returns, for every failure, the one type and the
\* retryability of the taxonomy (rate_limit, timeout, authentication,
\* validation, server, network, and unknown for anything else), and for a
\* rate-limit error the error's retryAfter.
C18_ClassifyErrorFollowsTaxonomy ==
    (mode = "classify" /\ classified.verdict # <<>>)
        => LET error == classified.error[1]
               verdict == classified.verdict[1]
           IN  /\ verdict.threw = <<>>
               /\ <<verdict.type, verdict.isRetryable>> = TaxonomyRow(error)
               /\ verdict.retryAfter =
                      (IF verdict.type = "rate_limit" THEN error.retryAfter ELSE <<>>)

\* C19: when the failed-response handler marks a failed response retryable
\* (status 429, 408 or 5xx), classifyError reports isRetryable = true for the
\* APICallError the handler built for it.
C19_HandlerAndClassifyErrorAgree ==
    (mode = "classify" /\ classified.verdict # <<>>)
        => \A status \in HttpStatuses :
              (classified.error[1] = dudoxxFailedResponseHandler(status)
                  /\ HandlerIsRetryable(status))
                  => classified.verdict[1].isRetryable

(***************************************************************************)
(* Properties of the message converter.                                    *)
(***************************************************************************)
\* convertToDudoxxChatMessages has returned (it did not throw)
Converted == mode = "convert" /\ converted # <<>> /\ converted[1].threw = <<>>

\* the tool-call parts of a turn, in order, as wire tool calls
TurnToolCalls(turn) ==
    LET parts == SelectSeq(turn.content, LAMBDA part : part.type = "tool-call")
    IN  [k \in 1..Len(parts) |->
            [id |-> parts[k].toolCallId, type |-> "function",
             function |-> [name |-> parts[k].toolName,
                           arguments |-> JsonStringify(parts[k].args)]]]

\* the positions of the wire messages that came from turn i
MessagesOfTurn(i) == {k \in 1..Len(convOrigin) : convOrigin[k] = i}

\* C20: when the conversion returns, every assistant turn with at least one
\* tool-call part (with or without text parts, in any order) yields exactly
\* one wire message, whose tool_calls are all the turn's tool calls in order
\* and whose content is null; and no assistant wire message carries both
\* non-null content and tool_calls.
C20_ToolCallTurnHasNullContent ==
    Converted =>
        /\ \A i \in 1..Len(prompt) :
              (prompt[i].role = "assistant" /\ Len(TurnToolCalls(prompt[i])) > 0)
                  => /\ Cardinality(MessagesOfTurn(i)) = 1
                     /\ \A k \in MessagesOfTurn(i) :
                           /\ converted[1].messages[k].role = "assistant"
                           /\ converted[1].messages[k].tool_calls = <<TurnToolCalls(prompt[i])>>
                           /\ converted[1].messages[k].content = WireNull
        /\ \A k \in 1..Len(converted[1].messages) :
              converted[1].messages[k].role = "assistant"
                  => \/ converted[1].messages[k].content = WireNull
                     \/ converted[1].messages[k].tool_calls = <<>>

\* C20 witness: the second turn of the conversation is an assistant turn with
\* text, a tool call, more text and another tool call; its one wire message
\* has both tool calls and null content.
C20_Witness ==
    /\ Converted
    /\ Len(prompt) = 3
    /\ prompt[2] = Turn("assistant", <<TextPart("Let me check."), WeatherCall,
                                       TextPart(" One moment."), TimeCall>>)
    /\ \E k \in MessagesOfTurn(2) :
          /\ Len(converted[1].messages[k].tool_calls[1]) = 2
          /\ converted[1].messages[k].tool_calls[1][1].function.arguments
                 = "{\"city\":\"SF\",\"unit\":\"C\"}"
          /\ converted[1].messages[k].content = WireNull

\* the wire messages that came from turn i, in output order
MessagesOf(i) ==
    LET positions == SelectSeq([k \in 1..Len(convOrigin) |-> k],
                               LAMBDA k : convOrigin[k] = i)
    IN  [n \in 1..Len(positions) |-> converted[1].messages[positions[n]]]

\* the text parts of a turn, concatenated
TurnText(turn) ==
    LET texts == SelectSeq(turn.content, LAMBDA part : part.type = "text")
        Concat[n \in 0..Len(texts)] == IF n = 0 THEN "" ELSE Concat[n - 1] \o texts[n].text
    IN  Concat[Len(texts)]

\* C21: when the conversion returns, the wire messages are in turn order
\* (those of turn i precede those of turn i + 1); a system turn and a user
\* turn yield exactly one message each, an assistant turn at most one and
\* none exactly when it has neither non-empty text nor a tool call, and a
\* tool turn one message per tool-result part, in part order.
C21_TurnOrderAndMessageCounts ==
    Converted =>
        /\ \A k \in 1..(Len(convOrigin) - 1) : convOrigin[k] <= convOrigin[k + 1]
        /\ \A k \in 1..Len(convOrigin) : convOrigin[k] \in 1..Len(prompt)
        /\ \A i \in 1..Len(prompt) :
              LET turn == prompt[i]
                  out == MessagesOf(i)
              IN  /\ \A n \in 1..Len(out) : out[n].role = turn.role
                  /\ turn.role \in {"system", "user"} => Len(out) = 1
                  /\ turn.role = "assistant"
                        => /\ Len(out) <= 1
                           /\ (Len(out) = 0) <=>
                                 (TurnText(turn) = "" /\ Len(TurnToolCalls(turn)) = 0)
                  /\ turn.role = "tool"
                        => /\ Len(out) = Len(turn.content)
                           /\ \A n \in 1..Len(out) :
                                 /\ out[n].tool_call_id = <<turn.content[n].toolCallId>>
                                 /\ out[n].content
                                        = WireString(JsonStringify(turn.content[n].result))

\* C21 witness: a system turn, an assistant turn with only an empty text part
\* and a tool turn with two results gave three messages: system, tool, tool.
C21_Witness ==
    /\ Converted
    /\ Len(prompt) = 3
    /\ prompt[1].role = "system"
    /\ prompt[2] = Turn("assistant", <<TextPart("")>>)
    /\ prompt[3].role = "tool"
    /\ convOrigin = <<1, 3, 3>>
    /\ converted[1].messages[2].tool_call_id = <<"call_1">>
    /\ converted[1].messages[3].content = WireString("\"12:00\"")

\* the conversation is one user turn with the one text part
SingleUserText(text) ==
    /\ Len(prompt) = 1
    /\ prompt[1].role = "user"
    /\ prompt[1].content = <<TextPart(text)>>

FileTurns ==
    {i \in 1..Len(prompt) :
        /\ prompt[i].role = "user"
        /\ \E n \in 1..Len(prompt[i].content) : prompt[i].content[n].type = "file"}

\* C23: when some user turn holds a file part, every call of the conversion
\* throws the unsupported-functionality error and returns no wire message,
\* whatever turns precede or follow; without a file part it does not throw.
C23_FilePartFailsWholeConversion ==
    mode = "convert" =>
        \A n \in 1..Len(converted) :
            /\ FileTurns # {}
                  => /\ converted[n].threw
                           = <<UnsupportedFunctionalityError("File content parts in user messages")>>
                     /\ converted[n].messages = <<>>
            /\ FileTurns = {} => converted[n].threw = <<>>

\* C23 witness: a conversation with valid turns before and after the user
\* turn that holds the file part was converted, and the call threw.
C23_Witness ==
    /\ mode = "convert"
    /\ Len(prompt) = 3
    /\ FileTurns = {2}
    /\ prompt[1].role = "system"
    /\ prompt[3].role = "tool"
    /\ converted # <<>>
    /\ converted[1].threw # <<>>

(***************************************************************************)
(* Claims about prepareTools                                               *)
(***************************************************************************)
\* the tools of the mode argument of the call, none when absent
InputTools == IF toolMode[1].tools = <<>> THEN <<>> ELSE toolMode[1].tools[1]

\* the tools returned by the call, none when undefined
OutputTools == IF prepared[1].tools = <<>> THEN <<>> ELSE prepared[1].tools[1]

\* a function tool whose definition is malformed: name missing, not a string
\* or empty, name of the wrong format, or parameters that cannot be serialized
Malformed(tool) ==
    /\ tool.type = "function"
    /\ \/ tool.name.kind # "string"
       \/ tool.name.text = ""
       \/ ~ToolNameFormat(tool.name.text)
       \/ tool.parameters.kind = "circular"

WellFormedFunctionTool(tool) == tool.type = "function" /\ ~Malformed(tool)

KnownChoice(toolChoice) ==
    toolChoice = <<>> \/ toolChoice[1].type \in {"auto", "none", "required", "tool"}

PreparedWithTools == prepared # <<>> /\ prepared[1].threw = <<>> /\ InputTools # <<>>

\* C24: prepareTools throws only for a tool-choice directive of an unknown
\* kind, never for a malformed tool; each malformed tool is left out with at
\* least one warning of its own, every well-formed function tool is in the
\* output exactly once and in input order, with its name, with the
\* description "Tool: <name>" when it has none and the empty object schema
\* when it has no parameters; output tools plus left-out tools are the input
C24_MalformedToolsSkippedWithWarning ==
    /\ prepared # <<>> /\ prepared[1].threw # <<>> => ~KnownChoice(toolMode[1].toolChoice)
    /\ PreparedWithTools =>
         LET from == prepOrigin[1].tools
             skipped == {i \in DOMAIN InputTools : ~WellFormedFunctionTool(InputTools[i])}
         IN  /\ Len(from) = Len(OutputTools)
             /\ \A k \in DOMAIN from : k > 1 => from[k - 1] < from[k]
             /\ \A i \in DOMAIN InputTools :
                   IF Malformed(InputTools[i])
                      THEN /\ \A k \in DOMAIN from : from[k] # i
                           /\ \E w \in DOMAIN prepOrigin[1].warnings :
                                 prepOrigin[1].warnings[w] = i
                   ELSE IF InputTools[i].type = "function"
                      THEN \E k \in DOMAIN from : from[k] = i
                      ELSE \A k \in DOMAIN from : from[k] # i
             /\ \A k \in DOMAIN OutputTools :
                   LET tool == InputTools[from[k]]
                       out == OutputTools[k]
                   IN  /\ out.type = "function"
                       /\ out.function.name = tool.name.text
                       /\ tool.description = <<>> =>
                             out.function.description = "Tool: " \o tool.name.text
                       /\ tool.description # <<>> /\ tool.description # <<"">> =>
                             out.function.description = tool.description[1]
                       /\ out.function.parameters =
                             IF tool.parameters.kind = "undefined"
                                THEN EmptyObjectSchema ELSE tool.parameters
             /\ Len(OutputTools) + Cardinality(skipped) = Len(InputTools)

\* three tools were passed, the second with a name that starts with a digit:
\* the first and the third came back, the third with both defaults
C24_Witness ==
    /\ PreparedWithTools
    /\ Len(InputTools) = 3
    /\ InputTools[2].name.text = "1tool"
    /\ InputTools[3].description = <<>> /\ InputTools[3].parameters.kind = "undefined"
    /\ prepOrigin[1].tools = <<1, 3>>
    /\ OutputTools[2].function.description = "Tool: t2"
    /\ OutputTools[2].function.parameters = EmptyObjectSchema
    /\ Len(prepared[1].toolWarnings) >= 1

\* what the tool-choice mapping gives for the directive of the call: auto,
\* none and required verbatim, a named tool as the function object, nothing
\* for an absent directive, and a failure for any other kind
ChoiceMappedAsDirected ==
    LET toolChoice == toolMode[1].toolChoice
        result == prepared[1]
    IN  IF toolChoice = <<>>
           THEN result.threw = <<>> /\ result.tool_choice = <<>>
        ELSE IF toolChoice[1].type \in {"auto", "none", "required"}
           THEN /\ result.threw = <<>>
                /\ result.tool_choice = <<ChoiceString(toolChoice[1].type)>>
        ELSE IF toolChoice[1].type = "tool"
           THEN /\ result.threw = <<>>
                /\ result.tool_choice = <<ChoiceFunction(toolChoice[1].toolName)>>
        ELSE /\ result.threw # <<>>
             /\ result.threw[1].name = "AI_UnsupportedFunctionalityError"

\* C25 as stated: every call of prepareTools maps the tool-choice directive:
\* auto, none and required verbatim, tool:<name> to {type: 'function',
\* function: {name}}, absent to undefined, any other kind to an
\* unsupported-functionality failure.
C25_ToolChoiceMappedExhaustively == prepared # <<>> => ChoiceMappedAsDirected

\* C25 amended: the mapping applies when at least one tool was passed; with
\* tools absent or empty, tool_choice is undefined whatever the directive and
\* nothing is raised.
C25_ToolChoiceMappedWhenToolsGiven ==
    prepared # <<>> =>
        IF InputTools # <<>>
           THEN ChoiceMappedAsDirected
           ELSE /\ prepared[1].threw = <<>>
                /\ prepared[1].tool_choice = <<>>
                /\ prepared[1].tools = <<>>

\* a directive of an unknown kind came with one tool and the call failed
C25_Witness ==
    /\ prepared # <<>>
    /\ Len(InputTools) = 1
    /\ toolMode[1].toolChoice = <<ToolChoice("any", Undefined)>>
    /\ prepared[1].threw =
          <<UnsupportedFunctionalityError("Unsupported tool choice type: any")>>

(***************************************************************************)
(* Claims about the finish reason                                          *)
(***************************************************************************)
\* the finish-reason table as documented
DocumentedFinishReason(fr) ==
    IF fr = "stop" THEN "stop"
    ELSE IF fr = "length" THEN "length"
    ELSE IF fr = "function_call" \/ fr = "tool_calls" THEN "tool-calls"
    ELSE IF fr = "content_filter" THEN "content-filter"
    ELSE "unknown"

\* the positions of the chunks of stream s whose first choice has a
\* finish_reason that is not null
FinishReasonSeenAt(s) ==
    {k \in DOMAIN chunksIn[s] :
        /\ chunksIn[s][k].success
        /\ chunksIn[s][k].choices # <<>>
        /\ chunksIn[s][k].choices[1].finish_reason # Undefined}

LastFinishReasonSeen(s) ==
    LET k == CHOOSE k \in FinishReasonSeenAt(s) : \A j \in FinishReasonSeenAt(s) : j <= k
    IN  chunksIn[s][k].choices[1].finish_reason

\* C26: no finish event is emitted while chunks are processed; flush emits
\* the one finish event, last, and its finishReason is the documented
\* mapping (stop->stop, length->length, function_call|tool_calls->tool-calls,
\* content_filter->content-filter, anything else->unknown) of the last
\* finish_reason seen that was not null, or unknown when none was seen.
C26_FinishOnlyAtFlushWithLastMappedReason ==
    /\ \A fr \in WireFinishReasons \cup {Undefined} :
          mapDudoxxFinishReason(fr) = DocumentedFinishReason(fr)
    /\ \A s \in Streams :
            /\ Count(events[s], "finish") = IF flushed[s] THEN 1 ELSE 0
            /\ flushed[s] =>
                 /\ Last(events[s]).type = "finish"
                 /\ Last(events[s]).finishReason =
                       IF FinishReasonSeenAt(s) = {} THEN "unknown"
                       ELSE DocumentedFinishReason(LastFinishReasonSeen(s))

\* a stream whose second chunk said function_call and whose third had no
\* finish_reason was closed with tool-calls
C26_Witness ==
    /\ flushed["A"]
    /\ Len(chunksIn["A"]) = 3
    /\ FinishReasonSeenAt("A") = {2}
    /\ LastFinishReasonSeen("A") = "function_call"
    /\ Last(events["A"]).finishReason = "tool-calls"

(***************************************************************************)
(* Claims about doGenerate                                                 *)
(***************************************************************************)
\* the entries of message.tool_calls of the response, none when nullish
WireCalls ==
    IF genResponse[1].tool_calls = <<>> THEN <<>> ELSE genResponse[1].tool_calls[1]

\* the positions of the entries that have a function name
NamedCalls == {k \in DOMAIN WireCalls : WireCalls[k].name \notin {"", Undefined}}

\* C27: doGenerate does not fail because of a tool call without a name: the
\* entries with a missing or empty function name are dropped, the others
\* are returned in wire order with their names, every returned args string
\* parses as JSON and is the wire arguments when those parse and "{}"
\* otherwise, absent usage counters are 0 and absent text is "".
C27_BadToolCallsDroppedArgsParseable ==
    genResult # <<>> =>
        /\ genResult[1].threw = <<>>
        /\ Len(genOrigin) = Cardinality(NamedCalls)
        /\ \A k \in DOMAIN genOrigin :
              /\ genOrigin[k] \in NamedCalls
              /\ k > 1 => genOrigin[k - 1] < genOrigin[k]
              /\ ReturnedToolCalls[k].toolName = GenerateOriginEntry(k).name
              /\ JsonParses(ReturnedToolCalls[k].args)
              /\ ReturnedToolCalls[k].args =
                    IF JsonParses(GenerateOriginEntry(k).arguments)
                       THEN GenerateOriginEntry(k).arguments ELSE "{}"
        /\ Len(ReturnedToolCalls) = Len(genOrigin)
        /\ genResponse[1].usage = <<>> =>
              genResult[1].usage = [promptTokens |-> 0, completionTokens |-> 0]
        /\ genResponse[1].content = Undefined => genResult[1].text = ""

(***************************************************************************)
(* Claims about doEmbed                                                    *)
(***************************************************************************)
\* the maximum that applies to the call: the setting, 32 when it is absent
ConfiguredMaximum ==
    IF embedCall[1].settings.maxEmbeddingsPerCall = <<>> THEN 32
    ELSE embedCall[1].settings.maxEmbeddingsPerCall[1]

TooManyValuesRejected ==
    /\ embedCall[1].pc = "rejected"
    /\ embedCall[1].outcome[1].threw =
          <<TooManyEmbeddingValuesForCallError(ConfiguredMaximum, embedCall[1].values)>>

\* C28: once doEmbed has run, a call with more values than the maximum
\* (the setting, or 32 by default) was rejected with the too-many-values
\* error and no request was sent, and a call with at most that many values
\* sent its one request.
C28_TooManyValuesRejectedBeforeRequest ==
    (mode = "embed" /\ embedCall[1].pc # "called") =>
        IF Len(embedCall[1].values) > ConfiguredMaximum
           THEN TooManyValuesRejected /\ embedCall[1].requests = <<>>
           ELSE /\ Len(embedCall[1].requests) = 1
                /\ embedCall[1].requests[1].input = embedCall[1].values
                /\ ~TooManyValuesRejected

\* 33 values went to a model without the setting: rejected, nothing sent
C28_Witness ==
    /\ mode = "embed"
    /\ embedCall[1].settings.maxEmbeddingsPerCall = <<>>
    /\ Len(embedCall[1].values) = 33
    /\ TooManyValuesRejected
    /\ embedCall[1].outcome[1].threw[1].maxEmbeddingsPerCall = 32
    /\ embedCall[1].requests = <<>>

(***************************************************************************)
(* Claims about the argument fragments of a stream                         *)
(***************************************************************************)
\* the tool-call-delta parts of stream s emitted before part k for the same
\* positional index from entries that carried the function name
NamedPartsBefore(s, k) ==
    {j \in ToolParts(s) :
        /\ j < k
        /\ OriginEntry(s, j).index = OriginEntry(s, k).index
        /\ Truthy(OriginEntry(s, j).name)}

LastNamedPartBefore(s, k) ==
    CHOOSE j \in NamedPartsBefore(s, k) : \A i \in NamedPartsBefore(s, k) : i <= j

\* the entry carries argument text and no function name
ArgsOnlyEntry(entry) ==
    entry.hasFunction /\ entry.name = Undefined /\ entry.arguments # Undefined

\* C29: a part emitted for an entry with argument text and no function
\* name, at an index that was named earlier in the stream, carries that
\* last-known name (so not the empty name) and the toolCallId of the parts
\* emitted then; an entry with neither name nor arguments emits no part.
C29_ArgsOnlyDeltaKeepsIdAndName ==
    \A s \in Streams : \A k \in ToolParts(s) :
        /\ (ArgsOnlyEntry(OriginEntry(s, k)) /\ NamedPartsBefore(s, k) # {}) =>
              /\ events[s][k].toolName # ""
              /\ events[s][k].toolName
                    = OriginEntry(s, LastNamedPartBefore(s, k)).name
              /\ events[s][k].toolCallId
                    = events[s][LastNamedPartBefore(s, k)].toolCallId
        /\ ~( /\ OriginEntry(s, k).name = Undefined
              /\ OriginEntry(s, k).arguments = Undefined )

\* the argsTextDelta of the tool-call-delta parts k..Len of stream s built
\* from entries with positional index idx, concatenated in emission order
RECURSIVE EmittedArgs(_, _, _)
EmittedArgs(s, idx, k) ==
    IF k > Len(events[s]) THEN ""
    ELSE (IF k \in ToolParts(s) /\ OriginEntry(s, k).index = idx
             THEN events[s][k].argsTextDelta ELSE "")
         \o EmittedArgs(s, idx, k + 1)

\* the argument fragments of entries n..Len of a tool_calls list for index
\* idx, entries with an empty function name left aside
RECURSIVE EntryArgs(_, _, _)
EntryArgs(tool_calls, idx, n) ==
    IF n > Len(tool_calls) THEN ""
    ELSE (IF /\ tool_calls[n].index = idx
             /\ tool_calls[n].hasFunction
             /\ tool_calls[n].name # ""
             /\ tool_calls[n].arguments # Undefined
             THEN tool_calls[n].arguments ELSE "")
         \o EntryArgs(tool_calls, idx, n + 1)

\* the argument fragments the wire sent for index idx in chunks c..Len of
\* stream s, concatenated in arrival order
RECURSIVE WireArgs(_, _, _)
WireArgs(s, idx, c) ==
    IF c > Len(chunksIn[s]) THEN ""
    ELSE EntryArgs(ToolCallsOf(chunksIn[s][c]), idx, 1) \o WireArgs(s, idx, c + 1)

\* C30: for each tool call of a stream (positional index), the
\* argsTextDelta of its tool-call-delta parts concatenated in emission order
\* is the concatenation of the argument fragments the wire sent for it: no
\* fragment dropped, none emitted twice, also when an entry carries both
\* the function name and an argument fragment.
C30_ArgsDeltasConcatenateToWireArgs ==
    \A s \in Streams : \A idx \in 0..1 :
        EmittedArgs(s, idx, 1) = WireArgs(s, idx, 1)

(***************************************************************************)
(* Claims about the usage of a stream                                      *)
(***************************************************************************)
\* the positions of the parsed chunks of stream s that carried usage
UsageSeenAt(s) ==
    {k \in DOMAIN chunksIn[s] : chunksIn[s][k].success /\ chunksIn[s][k].usage # <<>>}

LastUsageSeen(s) ==
    LET k == CHOOSE k \in UsageSeenAt(s) : \A j \in UsageSeenAt(s) : j <= k
    IN  chunksIn[s][k].usage[1]

\* C31: the usage of the finish event is the prompt and completion token
\* counts of the last parsed chunk that carried usage, whatever chunks came
\* before or after it.
C31_FinishUsageIsLastUsageSeen ==
    \A s \in Streams :
        (flushed[s] /\ UsageSeenAt(s) # {}) =>
            Last(events[s]).usage =
                [promptTokens |-> LastUsageSeen(s).prompt_tokens,
                 completionTokens |-> LastUsageSeen(s).completion_tokens]

\* usage 4/30 came first, usage 0/7 second and an unparseable chunk last:
\* the stream finished with 0/7
C31_Witness ==
    /\ flushed["A"]
    /\ Len(chunksIn["A"]) = 3
    /\ UsageSeenAt("A") = {1, 2}
    /\ chunksIn["A"][1].usage = <<Usage4_30>>
    /\ ~chunksIn["A"][3].success
    /\ Last(events["A"]).usage = [promptTokens |-> 0, completionTokens |-> 7]

\* the defects of a parameters schema the validation rules look for
RequiredNotArray(tool) ==
    tool.parameters.kind = "object" /\ tool.parameters.required \notin {"undefined", "array"}

PropertiesNotObject(tool) ==
    tool.parameters.kind = "object" /\ tool.parameters.properties \notin {"undefined", "object"}

RootTypeNotObject(tool) ==
    tool.parameters.kind = "object" /\ tool.parameters.type \notin {Undefined, "object"}

WarnedAbout(i) == \E w \in DOMAIN prepOrigin[1].warnings : prepOrigin[1].warnings[w] = i

ReturnedFrom(i) == \E k \in DOMAIN prepOrigin[1].tools : prepOrigin[1].tools[k] = i

\* C32: a function tool with a valid name whose parameters declare a
\* `required` that is not an array or `properties` that is not an object
\* draws a warning and is not in the output; one whose only defect is a root
\* type other than 'object' draws a warning and is in the output.
C32_SchemaRulesWarnAndSkip ==
    PreparedWithTools =>
        \A i \in DOMAIN InputTools :
            WellFormedFunctionTool(InputTools[i]) =>
                /\ (RequiredNotArray(InputTools[i]) \/ PropertiesNotObject(InputTools[i]))
                      => WarnedAbout(i) /\ ~ReturnedFrom(i)
                /\ ( /\ RootTypeNotObject(InputTools[i])
                     /\ ~RequiredNotArray(InputTools[i])
                     /\ ~PropertiesNotObject(InputTools[i]) )
                      => WarnedAbout(i) /\ ReturnedFrom(i)

\* C33: prepareTools never returns an empty tools array: when the input
\* list is absent or empty, or every tool of it was skipped or unsupported,
\* the returned tools value is undefined, not [].
C33_NeverEmptyToolsArray ==
    (prepared # <<>> /\ prepared[1].threw = <<>>) => prepared[1].tools # <<<<>>>>

(***************************************************************************)
(* Claims about the configuration of the monitor                           *)
(***************************************************************************)
\* C34: after updateConfig every key of the update has the new value and
\* every other key the value it had before, and this stays so whatever the
\* host does to an object getConfig returned: a write to that object never
\* changes the monitor's configuration.
C34_UpdateMergesAndGetConfigCopies ==
    /\ [](lastUpdate # <<>> =>
            \A k \in DOMAIN config :
                config[k] = IF k \in DOMAIN lastUpdate[1].patch
                               THEN lastUpdate[1].patch[k]
                               ELSE lastUpdate[1].before[k])
    /\ [][(held # <<>> /\ held' # held) => config' = config]_vars

\* the host took the configuration, updateConfig changed timeoutMs and
\* retryDelayMs, and the host then wrote maxRetries and timeoutMs on the
\* object it held: the monitor has the updated values and its own maxRetries
C34_Witness ==
    /\ mode = "monitor"
    /\ lastUpdate # <<>>
    /\ lastUpdate[1].patch = [timeoutMs |-> 5000, retryDelayMs |-> 100]
    /\ held # <<>>
    /\ held[1].value.maxRetries = 9
    /\ held[1].value.timeoutMs = 1
    /\ config.timeoutMs = 5000
    /\ config.retryDelayMs = 100
    /\ config.maxRetries = lastUpdate[1].before.maxRetries
    /\ config.maxRetries # 9

(***************************************************************************)
(* Claims about the retries of the monitor                                 *)
(***************************************************************************)
\* C35: the delay the monitor sleeps after failed attempt k is
\* base * 2^k capped at the maximum delay, so it never exceeds the cap.
C35_BackoffDelayCapped ==
    mode = "monitor" =>
        \A c \in CallIds :
            calls[c].pc = "sleeping" =>
                /\ calls[c].delay
                      = CappedDelay(calls[c].attempt, config.retryDelayMs, MaxDelayMs)
                /\ calls[c].delay <= MaxDelayMs

(***************************************************************************)
(* The monitor around an execute function that calls the provider: its      *)
(* promise may reject with the APICallError of the failed-response handler. *)
(***************************************************************************)
\* the statuses that classifyError reports as authentication or validation
\* failures, by the behaviour of execute that rejects with them
ApiRejections == {"reject401", "reject403", "reject400", "reject422"}

RejectedStatus(behaviour) ==
    IF behaviour = "reject401" THEN 401
    ELSE IF behaviour = "reject403" THEN 403
    ELSE IF behaviour = "reject400" THEN 400
    ELSE 422

\* the race is won by executeFunction's promise, which rejects with the
\* APICallError of a failed HTTP response
ExecuteRejectsApiCall(c) ==
    /\ mode = "monitor"
    /\ calls[c].pc = "racing"
    /\ executePlan[calls[c].executed] \in ApiRejections
    /\ CatchAttempt(c, calls[c],
                    dudoxxFailedResponseHandler(RejectedStatus(executePlan[calls[c].executed])))
    /\ UNCHANGED <<mode, config, executePlan, updates, streamVars, genVars, errVars, convVars, prepVars,
                   embedVars, hostVars>>

InitMonitorApi ==
    /\ mode = "monitor"
    /\ InitStream
    /\ IdleGenerate
    /\ IdleErrors
    /\ IdleConvert
    /\ IdlePrepare
    /\ IdleEmbed
    /\ IdleHost
    /\ config \in [timeoutMs : {DefaultTimeoutMs},
                   maxRetries : 0..MaxRetriesBound,
                   retryDelayMs : {DefaultRetryDelayMs},
                   enableMetrics : {TRUE},
                   enablePerformanceTracking : {TRUE}]
    /\ activeExecutions = <<>>
    /\ completedExecutions = <<>>
    /\ calls = [c \in CallIds |-> IdleCall]
    /\ executePlan \in [1..(MaxRetriesBound + 1) -> {"resolve", "reject", "hang"} \cup ApiRejections]
    /\ completionLog = <<>>
    /\ updates = 0

NextMonitorApi ==
    \/ NextMonitor
    \/ \E c \in CallIds : ExecuteRejectsApiCall(c)

SpecMonitorApi == InitMonitorApi /\ [][NextMonitorApi]_vars

\* the failure that ended the k-th invocation of execute, as classifyError sees it
FailureClassOf(k) ==
    classifyError(dudoxxFailedResponseHandler(RejectedStatus(executePlan[k]))).type

\* C36: the monitor never invokes execute again after an invocation that
\* failed with an error classified authentication or validation (HTTP 401,
\* 403, 400, 422): no invocation before the latest one of a call ended so
C36_NoRetryAfterAuthOrValidationFailure ==
    \A c \in CallIds :
        \A k \in 1..(calls[c].executed - 1) :
            executePlan[k] \in ApiRejections
                => FailureClassOf(k) \notin {"authentication", "validation"}

\* the call ended in success: its latest invocation of execute resolved
EndedInSuccess(c) ==
    /\ calls[c].executed >= 1
    /\ executePlan[calls[c].executed] = "resolve"

\* C37: executeToolWithMonitoring never rejects.  Whatever execute does on
\* each attempt (resolve, throw or reject with an Error, reject with a value
\* that is no Error, never settle), a started call eventually returns, and
\* the value it returned has error set exactly when the call failed (result
\* otherwise), metrics.status 'success' or 'error', and metrics.endTime and
\* metrics.duration set.
C37_AlwaysReturnsAnOutcome ==
    /\ [](\A c \in CallIds :
            calls[c].pc = "done"
                => /\ Len(calls[c].returned) = 1
                   /\ (calls[c].returned[1].error # <<>>) <=> ~EndedInSuccess(c)
                   /\ (calls[c].returned[1].result # <<>>) <=> EndedInSuccess(c)
                   /\ calls[c].metrics.status \in {"success", "error"}
                   /\ (calls[c].metrics.status = "success") <=> EndedInSuccess(c)
                   /\ calls[c].metrics.endTime # <<>>
                   /\ calls[c].metrics.duration # <<>>)
    /\ \A c \in CallIds : (calls[c].pc # "idle") ~> (calls[c].pc = "done")

\* C37 witness: a call whose execute did not settle on the first attempt and
\* rejected with a value that is no Error on the second returned the
\* TypeError as its error.
C37_Witness ==
    \E c \in CallIds :
        /\ calls[c].pc = "done"
        /\ calls[c].executed = 2
        /\ executePlan[1] = "hang"
        /\ executePlan[2] = "rejectNonError"
        /\ calls[c].returned[1].error = <<TypeErrorValue>>
        /\ calls[c].returned[1].result = <<>>
        /\ calls[c].metrics.status = "error"
        /\ calls[c].metrics.endTime # <<>>

\* this.completedExecutions.filter(e => e.status === status).length
CountStatus(history, status) ==
    Cardinality({k \in DOMAIN history : history[k].status = status})

\* a quotient n / total of getExecutionStats, kept as numerator and denominator
Rate(n, total) == [numerator |-> n, denominator |-> total]

\* getExecutionStats(), without averageDuration
getExecutionStats ==
    LET total == Len(completedExecutions)
    IN  IF total = 0
        THEN [activeCount |-> Cardinality(DOMAIN activeExecutions),
              totalCompleted |-> 0,
              successRate |-> Rate(0, 1),
              timeoutRate |-> Rate(0, 1),
              errorRate |-> Rate(0, 1)]
        ELSE [activeCount |-> Cardinality(DOMAIN activeExecutions),
              totalCompleted |-> total,
              successRate |-> Rate(CountStatus(completedExecutions, "success"), total),
              timeoutRate |-> Rate(CountStatus(completedExecutions, "timeout"), total),
              errorRate |-> Rate(CountStatus(completedExecutions, "error"), total)]

\* C38: no entry of the completed history has status 'pending' or 'timeout':
\* every entry is 'success' or 'error' (a call that ended by timeout is
\* recorded as 'error'), so the success count plus the error count of
\* getExecutionStats equals totalCompleted and timeoutRate is 0.
C38_HistoryHoldsOnlySuccessAndError ==
    /\ \A k \in DOMAIN completedExecutions :
          completedExecutions[k].status \in {"success", "error"}
    /\ \A k \in DOMAIN completionLog :
          /\ completionLog[k].entry.status \in {"success", "error"}
          /\ executePlan[calls[completionLog[k].call].executed] = "hang"
                => completionLog[k].entry.status = "error"
    /\ getExecutionStats.timeoutRate.numerator = 0
    /\ getExecutionStats.totalCompleted > 0
          => getExecutionStats.successRate.numerator + getExecutionStats.errorRate.numerator
                 = getExecutionStats.totalCompleted

\* C38 witness: two calls whose last attempt ended by the timer, after their
\* metrics had status 'timeout', are in the history with status 'error'.
C38_Witness ==
    /\ config.enableMetrics
    /\ Len(completedExecutions) = 2
    /\ \E c \in CallIds :
          /\ calls[c].pc = "done"
          /\ executePlan[calls[c].executed] = "hang"
          /\ calls[c].attempt >= 1
          /\ \E k \in DOMAIN completedExecutions :
                /\ completedExecutions[k].executionId = calls[c].executionId
                /\ completedExecutions[k].status = "error"
    /\ getExecutionStats.successRate.numerator = 0
    /\ getExecutionStats.errorRate.numerator = 2

(***************************************************************************)
(* The promise of executeFunction that lost the race against the timer: it  *)
(* is not cancelled (calls[c].abandoned counts such promises) and may settle *)
(* later, when Promise.race has already settled with the timer's rejection. *)
(***************************************************************************)
\* variant: the value of the late promise is taken as the result of the call
LateSettlementWins(c) ==
    /\ mode = "monitor"
    /\ calls[c].abandoned > 0
    /\ ReturnResult(c, [calls[c] EXCEPT !.abandoned = @ - 1,
                                        !.late = Append(@, [at |-> calls[c].pc,
                                                            outcome |-> "resolve"])],
                    "result")
    /\ UNCHANGED <<mode, config, executePlan, updates, streamVars, genVars, errVars, convVars, prepVars,
                   embedVars, hostVars>>

\* an abandoned promise resolves or rejects: the reactions Promise.race put on
\* it run against a race that is settled already, and nothing else waits for it
LateSettlement(c) ==
    /\ mode = "monitor"
    /\ calls[c].abandoned > 0
    /\ \E outcome \in {"resolve", "reject"} :
          calls' = [calls EXCEPT ![c].abandoned = @ - 1,
                                 ![c].late = Append(@, [at |-> calls[c].pc, outcome |-> outcome])]
    /\ UNCHANGED <<activeExecutions, completedExecutions, completionLog>>
    /\ UNCHANGED <<mode, config, executePlan, updates, streamVars, genVars, errVars, convVars, prepVars,
                   embedVars, hostVars>>

NextMonitorLate ==
    \/ NextMonitor
    \/ \E c \in CallIds : LateSettlement(c)

SpecMonitorLate == InitMonitorOnly /\ [][NextMonitorLate]_vars

\* a step in which an abandoned promise of call c settles
SettlesLate(c) == Len(calls'[c].late) > Len(calls[c].late)

\* the entries that call c left in the log of completions
CompletionsOf(c) == {k \in DOMAIN completionLog : completionLog[k].call = c}

\* C39: the execute promise of an attempt that timed out is not cancelled and
\* may settle at any later point; the step in which it settles changes
\* neither the outcome the call returned (or its progress towards one), nor
\* the retry count, nor the history and the entry recorded in it, and no call
\* ever has a second history entry.
C39_LateSettlementChangesNothing ==
    /\ [](\A c \in CallIds : Cardinality(CompletionsOf(c)) <= 1)
    /\ [][\A c \in CallIds :
            SettlesLate(c)
                => /\ calls'[c].returned = calls[c].returned
                   /\ calls'[c].pc = calls[c].pc
                   /\ calls'[c].attempt = calls[c].attempt
                   /\ calls'[c].executed = calls[c].executed
                   /\ calls'[c].metrics = calls[c].metrics
                   /\ calls'[c].warnings = calls[c].warnings
                   /\ completedExecutions' = completedExecutions
                   /\ completionLog' = completionLog
                   /\ activeExecutions' = activeExecutions]_vars

\* C39 witness: of a call that timed out three times, the first promise
\* settled during the first backoff, the second during the third attempt and
\* the third after the call had returned the timer's error.
C39_Witness ==
    \E c \in CallIds :
        /\ calls[c].pc = "done"
        /\ calls[c].abandoned = 0
        /\ Len(calls[c].late) = 3
        /\ calls[c].late[1].at = "sleeping"
        /\ calls[c].late[2].at = "racing"
        /\ calls[c].late[3].at = "done"
        /\ calls[c].returned[1].error = <<TimeoutErrorValue(config.timeoutMs)>>
        /\ calls[c].metrics.retryCount = 2
        /\ Cardinality(CompletionsOf(c)) = 1

\* a function tool that passes every validation rule that makes the loop
\* leave a tool out: name, serializable parameters, `required`, `properties`
PassesValidation(tool) ==
    /\ WellFormedFunctionTool(tool)
    /\ ~RequiredNotArray(tool)
    /\ ~PropertiesNotObject(tool)

\* C40: prepareTools changes the configuration of the process-wide monitor in
\* at most one way: when enableMetrics is true and at least one tool of the
\* input passes validation it sets enablePerformanceTracking to true; timeoutMs,
\* maxRetries, retryDelayMs and enableMetrics keep their values, and nothing
\* changes when enableMetrics is false or no tool passes validation.
C40_OnlyEnablesPerformanceTracking ==
    [][(prepared = <<>> /\ prepared' # <<>>)
          => config' = IF /\ config.enableMetrics
                          /\ \E i \in DOMAIN InputTools : PassesValidation(InputTools[i])
                       THEN [config EXCEPT !.enablePerformanceTracking = TRUE]
                       ELSE config]_vars

====
